---- MODULE Spec2Model ----
(***************************************************************************)
(* CVCS-LOCAL: the snapshot/version engine.                                *)
(*                                                                         *)
(* The metadata store (core/jsonfile_provider.go), the blob store          *)
(* (core/local_storage.go), the snapshot pipeline (calculate/codebase.go), *)
(* and the upload, history and archive services of package calculate.      *)
(* One request is served at a time: a handler is one action, from its     *)
(* entry to its response; the per-file units of a snapshot complete in any *)
(* order; the cache rebuild started by a manual link runs detached.        *)
(***************************************************************************)
EXTENDS Naturals, Integers, Sequences, FiniteSets, TLC

\* ------------------------------------------------------------------ bounds
MaxSnapshots == 3      \* ProcessSnapshot calls that draw a version id
MaxCodebases == 2      \* InitializeCodebase calls
MaxRebuilds == 2       \* detached cache rebuilds pending at a time
MaxAccesses == 2       \* calls of the metadata store in progress at a time

\* ------------------------------------------------------------------ inputs
Branches == {"main", "feature"}
Labels == {"v1", "v2"}
ProjName == <<"proj">>
LibName == <<"lib">>

\* Uploaded bytes: d is the content, z the number of zlib layers around it.
Raw(d) == [z |-> 0, d |-> d]
BytesX == Raw(<<1>>)
BytesY == Raw(<<2, 3>>)

\* An absent optional value is the empty sequence, a present one <<value>>.
None == <<>>
Some(x) == <<x>>

\* ------------------------------------------------------------------ helpers
Put(f, k, v) == [x \in (DOMAIN f) \cup {k} |-> IF x = k THEN v ELSE f[x]]
Del(f, ks) == [x \in (DOMAIN f) \ ks |-> f[x]]
Range(s) == {s[i] : i \in DOMAIN s}
Perms(S) == {s \in [1..Cardinality(S) -> S] : Range(s) = S}
RECURSIVE Sum(_)
Sum(s) == IF s = <<>> THEN 0 ELSE Head(s) + Sum(Tail(s))

\* ------------------------------------------------------------------ paths
\* A string is a sequence of characters (a run of letters counts as one); a path
\* is the sequence of its elements, relative to the working directory.
\* strings.Split(s, "/").
RECURSIVE Split(_)
Split(s) ==
  IF \A i \in DOMAIN s : s[i] # "/" THEN <<s>>
  ELSE LET i == CHOOSE k \in DOMAIN s : s[k] = "/" /\ \A j \in 1..(k - 1) : s[j] # "/"
       IN <<SubSeq(s, 1, i - 1)>> \o Split(SubSeq(s, i + 1, Len(s)))

\* filepath.Clean: empty and "." elements go, ".." takes back the element before it.
RECURSIVE Clean(_, _)
Clean(elems, acc) ==
  IF elems = <<>> THEN acc
  ELSE LET e == Head(elems) IN
       IF e = <<>> \/ e = <<".">> THEN Clean(Tail(elems), acc)
       ELSE IF e = <<"..">> /\ acc # <<>> /\ acc[Len(acc)] # <<"..">>
         THEN Clean(Tail(elems), SubSeq(acc, 1, Len(acc) - 1))
       ELSE Clean(Tail(elems), Append(acc, e))

\* filepath.Join(a, b), as a path.
Join(a, b) == Clean(Split(a \o <<"/">> \o b), <<>>)

\* The path as a string: its elements with "/" between them, "." when it has none.
RECURSIVE Flat(_)
Flat(path) ==
  IF path = <<>> THEN <<".">>
  ELSE IF Len(path) = 1 THEN path[1]
  ELSE path[1] \o <<"/">> \o Flat(Tail(path))

\* strings.HasPrefix and strings.TrimSpace(s) == "".
HasPrefix(s, prefix) == Len(prefix) <= Len(s) /\ SubSeq(s, 1, Len(prefix)) = prefix
Blank(s) == \A i \in DOMAIN s : s[i] = " "

\* The path is the directory or lies below it.
Within(path, dir) == Len(dir) <= Len(path) /\ SubSeq(path, 1, Len(dir)) = dir

\* The storage path of the default configuration.
DefaultStoragePath == <<".", "/", "cvcs_data">>

\* ------------------------------------------------------------------ utils
\* sha256 + hex: collision-free on the modelled contents.
CalculateHash(data) == <<"sha256", data.z, data.d>>

\* zlib: compression wraps the bytes in one more layer, decompression removes
\* one layer and fails on bytes that are not a zlib stream.
CompressData(data) == [z |-> data.z + 1, d |-> data.d]
DecompressOK(data) == data.z > 0
DecompressData(data) == [z |-> data.z - 1, d |-> data.d]
ByteLen(data) == Len(data.d) + 2 * data.z

\* ------------------------------------------------------------------ types
LinkageTypeSequential == "sequential"
LinkageTypeBranchFrom == "branch_from"

\* filepath.Ext + the image table of processFile.
ImagePaths == {"b.png"}
Paths == {"a.txt", "b.png"}
IsImage(relativePath) == relativePath \in ImagePaths
\* The characters of a relative path a client uploads a file under.
Chars(relativePath) ==
  CASE relativePath = "../a.txt" -> <<"..", "/", "a.txt">>
    [] relativePath = "/a.txt" -> <<"/", "a.txt">>
    [] OTHER -> <<relativePath>>

VARIABLES
  Codebases,                 \* cache.Codebases: codebase id -> Codebase
  Versions,                  \* cache.Versions: version id -> Version
  FileIndexes,               \* cache.FileIndexes: tree id -> sequence of File
  VersionMapping,            \* cache.VersionMapping: child id -> link record
  versionsByCodebase,        \* codebase id -> version ids, newest first
  versionIDByBranchAndName,  \* <<codebase id, branch, label>> -> version id
  diskCodebases,             \* codebases.json
  diskVersions,              \* versions.json
  diskFileIndexes,           \* file_indexes.json
  diskVersionMapping,        \* version_mapping.json
  historyCache,              \* history_cache/<id>.json: codebase id -> graph
  objects,                   \* the files written by the blob store: path -> bytes
  now,                       \* the wall clock
  uuidCodebase,              \* codebase ids drawn so far
  uuidVersion,               \* version (and tree) ids drawn so far
  uuidLink,                  \* link ids drawn so far
  rebuilds,                  \* detached RebuildHistoryCache goroutines, per codebase
  resp,                      \* the response being returned to the client
  config,                    \* ProviderManager.config: the storage path
  pair,                      \* ProviderManager.provider and .store: their directories
  parked,                    \* the metadata files of the directories not bound
  flight,                    \* a request served step by step: its handles
  building,                  \* detached rebuilds that have read the graph to write
  temp,                      \* the temporary directory: reconstruction dirs and zips
  access                     \* the calls of the metadata store in progress

memory == <<Codebases, Versions, FileIndexes, VersionMapping, versionsByCodebase,
            versionIDByBranchAndName>>
disk == <<diskCodebases, diskVersions, diskFileIndexes, diskVersionMapping>>
versionState == <<Versions, FileIndexes, versionsByCodebase, versionIDByBranchAndName,
                  diskVersions, diskFileIndexes>>
linkState == <<VersionMapping, diskVersionMapping, uuidLink>>
vars == <<Codebases, Versions, FileIndexes, VersionMapping, versionsByCodebase,
          versionIDByBranchAndName, diskCodebases, diskVersions, diskFileIndexes,
          diskVersionMapping, historyCache, objects, now, uuidCodebase, uuidVersion,
          uuidLink, rebuilds, resp, config, pair, parked, flight, building, temp,
          access>>
manager == <<config, pair, parked, flight>>

\* reinitialize: the directories of the stores of a storage path.
Bound(storagePath) ==
  [provider |-> Join(storagePath, <<"db">>), store |-> Join(storagePath, <<"oss">>)]
\* LocalStorage.basePath of the blob store in use.
BasePath == Flat(pair.store)

Empty == [x \in {} |-> 0]
NoVersionID == 0
NoResp == [op |-> "none", ok |-> TRUE, err |-> "", id |-> 0, in |-> <<>>, out |-> <<>>]
Ready == resp = NoResp

Init ==
  /\ Codebases = Empty
  /\ Versions = Empty
  /\ FileIndexes = Empty
  /\ VersionMapping = Empty
  /\ versionsByCodebase = Empty
  /\ versionIDByBranchAndName = Empty
  /\ diskCodebases = Empty
  /\ diskVersions = Empty
  /\ diskFileIndexes = Empty
  /\ diskVersionMapping = Empty
  /\ historyCache = Empty
  /\ objects = Empty
  /\ now = 0
  /\ uuidCodebase = 0
  /\ uuidVersion = 0
  /\ uuidLink = 0
  /\ rebuilds = Empty
  /\ resp = NoResp
  /\ config = DefaultStoragePath
  /\ pair = Bound(DefaultStoragePath)
  /\ parked = Empty
  /\ flight = None
  /\ building = <<>>
  /\ temp = [dirs |-> {}, zips |-> {}, files |-> Empty]
  /\ access = <<>>

\* save(filename, collection): the file holds the collection when the write
\* succeeds (io), and what it held before when it fails.
save(file, data, io) == IF io THEN data ELSE file

\* ---------------------------------------------------------- metadata store
\* Queries of JSONFileProvider, over the in-memory cache.
VersionKey(codebaseID, branch, version) == <<codebaseID, branch, version>>

\* None when the triple is unknown ("version %s/%s not found").
GetVersion(codebaseID, branch, version) ==
  LET key == VersionKey(codebaseID, branch, version) IN
  IF key \in DOMAIN versionIDByBranchAndName
       /\ versionIDByBranchAndName[key] \in DOMAIN Versions
    THEN Some(versionIDByBranchAndName[key])
    ELSE None

VersionsOf(codebaseID) ==
  IF codebaseID \in DOMAIN versionsByCodebase THEN versionsByCodebase[codebaseID]
  ELSE <<>>

\* A faulty variant: the last version of the branch in the newest-first list.
FindOldestVersionInBranch(codebaseID, branch, excludeVersionID) ==
  LET versions == VersionsOf(codebaseID)
      hits == {i \in DOMAIN versions :
                 /\ Versions[versions[i]].Branch = branch
                 /\ versions[i] # excludeVersionID}
  IN IF hits = {} THEN None
     ELSE Some(versions[CHOOSE i \in hits : \A j \in hits : i >= j])

\* The first version of the branch in the newest-first list, excludeVersionID aside.
FindLatestVersionInBranch(codebaseID, branch, excludeVersionID) ==
  LET versions == VersionsOf(codebaseID)
      hits == {i \in DOMAIN versions :
                 /\ Versions[versions[i]].Branch = branch
                 /\ versions[i] # excludeVersionID}
  IN IF hits = {} THEN None
     ELSE Some(versions[CHOOSE i \in hits : \A j \in hits : i <= j])

\* A faulty variant: the version being created is counted too.
IsNewBranchCountingAll(codebaseID, branch, excludeVersionID) ==
  LET versions == VersionsOf(codebaseID)
      count == Cardinality({i \in DOMAIN versions :
                 Versions[versions[i]].Branch = branch})
  IN count = 0

IsNewBranch(codebaseID, branch, excludeVersionID) ==
  LET versions == VersionsOf(codebaseID)
      count == Cardinality({i \in DOMAIN versions :
                 /\ Versions[versions[i]].Branch = branch
                 /\ versions[i] # excludeVersionID})
  IN count = 0

\* The excluded id is the empty string: no version is excluded.
FindLatestVersionInMain(codebaseID) ==
  FindLatestVersionInBranch(codebaseID, "main", NoVersionID)

\* sort.Slice by CreatedAt, newest first; the sort is not stable, so versions of
\* equal CreatedAt come in any order.
SortedNewestFirst(ids, vs) ==
  {s \in Perms(ids) :
     \A i, j \in DOMAIN s : i < j => vs[s[i]].CreatedAt >= vs[s[j]].CreatedAt}

\* A faulty variant: the new link replaces the one the child has.
OverwritingMapping(mapping, linkID, codebaseID, childID, parentID, branch, linkType) ==
  Put(mapping, childID,
      [ID |-> linkID, CodebaseID |-> codebaseID, Branch |-> branch,
       ChildVersionID |-> childID, ParentVersionID |-> parentID,
       LinkageType |-> linkType])

\* CreateVersionLink: a child that has a link keeps it.
LinkedMapping(mapping, linkID, codebaseID, childID, parentID, branch, linkType) ==
  IF childID \in DOMAIN mapping THEN mapping
  ELSE Put(mapping, childID,
           [ID |-> linkID, CodebaseID |-> codebaseID, Branch |-> branch,
            ChildVersionID |-> childID, ParentVersionID |-> parentID,
            LinkageType |-> linkType])

GetAllVersionsForMap(codebaseID) ==
  LET versions == VersionsOf(codebaseID) IN
  [i \in DOMAIN versions |->
     LET v == Versions[versions[i]] IN
     [ID |-> v.ID, Version |-> v.Version, Branch |-> v.Branch,
      CreatedAt |-> v.CreatedAt, Stats |-> v.Stats]]

\* The edges of the codebase; the map is ranged over in any order.
EdgeSet(codebaseID) ==
  {[From |-> VersionMapping[c].ParentVersionID, To |-> VersionMapping[c].ChildVersionID,
    LinkageType |-> VersionMapping[c].LinkageType] :
     c \in {k \in DOMAIN VersionMapping : VersionMapping[k].CodebaseID = codebaseID}}
\* rank: the place of each child id in that order.
GetAllVersionEdgesForMap(codebaseID, rank) ==
  CHOOSE s \in Perms(EdgeSet(codebaseID)) :
    \A i, j \in DOMAIN s : i < j => rank[s[i].To] < rank[s[j].To]

\* A faulty variant: the last version of each branch in the newest-first list.
GetBranchTailsForMap(codebaseID) ==
  LET versions == VersionsOf(codebaseID)
      branches == {Versions[versions[i]].Branch : i \in DOMAIN versions}
  IN [b \in branches |->
        versions[CHOOSE i \in DOMAIN versions :
                   /\ Versions[versions[i]].Branch = b
                   /\ \A j \in DOMAIN versions :
                        Versions[versions[j]].Branch = b => i >= j]]

GetBranchHeadsForMap(codebaseID) ==
  LET versions == VersionsOf(codebaseID)
      branches == {Versions[versions[i]].Branch : i \in DOMAIN versions}
  IN [b \in branches |->
        versions[CHOOSE i \in DOMAIN versions :
                   /\ Versions[versions[i]].Branch = b
                   /\ \A j \in DOMAIN versions :
                        Versions[versions[j]].Branch = b => i <= j]]

\* The graph RebuildHistoryCache assembles.
HistoryMap(codebaseID, rank) ==
  [CodebaseID |-> codebaseID, Nodes |-> GetAllVersionsForMap(codebaseID),
   Edges |-> GetAllVersionEdgesForMap(codebaseID, rank),
   Refs |-> GetBranchHeadsForMap(codebaseID)]

\* provider.CreateVersionLink: the write to the map and the save of
\* version_mapping.json (io: the save succeeds).
CreateVersionLink(codebaseID, childID, parentID, branch, linkType, io) ==
  /\ VersionMapping' = LinkedMapping(VersionMapping, uuidLink + 1, codebaseID,
                                     childID, parentID, branch, linkType)
  /\ IF childID \in DOMAIN VersionMapping
       THEN UNCHANGED <<diskVersionMapping, uuidLink>>
       ELSE /\ uuidLink' = uuidLink + 1
            /\ diskVersionMapping' = save(diskVersionMapping, VersionMapping', io)
\* Whether that call returns nil.
LinkWritten(childID, io) == childID \in DOMAIN VersionMapping \/ io

\* provider.CreateVersion; io counts the saves that succeed (2: both).
CreateVersion(version, files, io) ==
  IF version.ID \in DOMAIN Versions
    THEN UNCHANGED versionState
    ELSE /\ Versions' = Put(Versions, version.ID, version)
         /\ FileIndexes' = Put(FileIndexes, version.TreeID, files)
         /\ \E sorted \in SortedNewestFirst(
                 Range(VersionsOf(version.CodebaseID)) \cup {version.ID}, Versions') :
              versionsByCodebase' = Put(versionsByCodebase, version.CodebaseID, sorted)
         /\ versionIDByBranchAndName' =
              Put(versionIDByBranchAndName,
                  VersionKey(version.CodebaseID, version.Branch, version.Version),
                  version.ID)
         /\ diskVersions' = save(diskVersions, Versions', io >= 1)
         /\ diskFileIndexes' = save(diskFileIndexes, FileIndexes', io >= 2)
VersionCreated(version, io) == version.ID \notin DOMAIN Versions /\ io >= 2

\* --------------------------------------------------------- InitializeCodebase
InitializeCodebase(name, description, branch, io) ==
  /\ Ready
  /\ uuidCodebase < MaxCodebases
  /\ LET id == uuidCodebase + 1
         codebase == [ID |-> id, Name |-> name, Branch |-> branch,
                      CreatedAt |-> now + 1, UpdatedAt |-> now + 1]
     IN /\ now' = now + 1
        /\ uuidCodebase' = id
        /\ Codebases' = Put(Codebases, id, codebase)
        /\ diskCodebases' = save(diskCodebases, Codebases', io)
        /\ resp' = [op |-> "init", ok |-> io,
                    err |-> IF io THEN "" ELSE "data storage error", id |-> id,
                    in |-> Some([name |-> name, branch |-> branch]), out |-> None]
  /\ UNCHANGED <<versionState, linkState, historyCache, objects, uuidVersion, rebuilds,
                 manager, building, temp, access>>

\* ------------------------------------------------------------ CreateSnapshot
StorageKey(codebaseName, hash) == [dir |-> codebaseName, file |-> hash]
\* The key as the string "<codebaseName>/<hash>", and the file PutObject and
\* GetObject resolve it to: filepath.Join(basePath, objectName).
ObjectName(key) == key.dir \o <<"/">> \o <<key.file>>
ObjectPathAt(basePath, objectName) == Join(basePath, objectName)
ObjectPath(objectName) == ObjectPathAt(BasePath, objectName)

\* processFile: the bytes put under the storage key, and the File record.
StoredBytes(relativePath, data) ==
  IF IsImage(relativePath) THEN data ELSE CompressData(data)
\* A faulty variant: the hash is taken over the bytes as they are stored.
processFileHashingStored(relativePath, data, codebaseName) ==
  [Path |-> relativePath, Hash |-> CalculateHash(StoredBytes(relativePath, data)),
   Size |-> ByteLen(data),
   CompressedSize |-> ByteLen(StoredBytes(relativePath, data)),
   StorageKey |-> StorageKey(codebaseName,
                             CalculateHash(StoredBytes(relativePath, data))),
   Type |-> IF IsImage(relativePath) THEN "image" ELSE "other"]

processFile(relativePath, data, codebaseName) ==
  [Path |-> relativePath, Hash |-> CalculateHash(data), Size |-> ByteLen(data),
   CompressedSize |-> ByteLen(StoredBytes(relativePath, data)),
   StorageKey |-> StorageKey(codebaseName, CalculateHash(data)),
   Type |-> IF IsImage(relativePath) THEN "image" ELSE "other"]

\* A faulty variant: the errors of the units are dropped.
processFilesIgnoringErrors(files, codebaseName, order, outcome) ==
  LET ok(p) == outcome[p] = "ok"
      done == SelectSeq(order, ok)
      processed == [i \in DOMAIN done |->
                      processFile(done[i], files[done[i]], codebaseName)]
      total == Sum([i \in DOMAIN processed |-> processed[i].Size])
      compressed == Sum([i \in DOMAIN processed |-> processed[i].CompressedSize])
  IN [processedFiles |-> processed,
      errChan |-> <<>>,
      stats |-> [TotalFiles |-> Len(processed), TotalSize |-> total,
                 CompressedSize |-> compressed,
                 CompressionRatio |-> IF total > 0 THEN <<compressed, total>>
                                      ELSE <<0, 1>>]]

\* A faulty variant: the statistics are updated without the mutex, and the update
\* of the unit that completes last overwrites the others.
processFilesUnlocked(files, codebaseName, order, outcome) ==
  LET ok(p) == outcome[p] = "ok"
      failed(p) == outcome[p] # "ok"
      done == SelectSeq(order, ok)
      processed == [i \in DOMAIN done |->
                      processFile(done[i], files[done[i]], codebaseName)]
      last == IF processed = <<>> THEN <<>> ELSE <<processed[Len(processed)]>>
      total == Sum([i \in DOMAIN last |-> last[i].Size])
      compressed == Sum([i \in DOMAIN last |-> last[i].CompressedSize])
  IN [processedFiles |-> processed,
      errChan |-> SelectSeq(order, failed),
      stats |-> [TotalFiles |-> Len(last), TotalSize |-> total,
                 CompressedSize |-> compressed,
                 CompressionRatio |-> IF total > 0 THEN <<compressed, total>>
                                      ELSE <<0, 1>>]]

\* processFiles: the units complete in the order given; outcome[p] is "ok" or the
\* call of the unit that fails ("open", "compress", "put").
processFiles(files, codebaseName, order, outcome) ==
  LET ok(p) == outcome[p] = "ok"
      failed(p) == outcome[p] # "ok"
      done == SelectSeq(order, ok)
      processed == [i \in DOMAIN done |->
                      processFile(done[i], files[done[i]], codebaseName)]
      total == Sum([i \in DOMAIN processed |-> processed[i].Size])
      compressed == Sum([i \in DOMAIN processed |-> processed[i].CompressedSize])
  IN [processedFiles |-> processed,
      errChan |-> SelectSeq(order, failed),
      stats |-> [TotalFiles |-> Len(processed), TotalSize |-> total,
                 CompressedSize |-> compressed,
                 CompressionRatio |-> IF total > 0 THEN <<compressed, total>>
                                      ELSE <<0, 1>>]]

\* The blob store after the units: every unit that succeeds has put its bytes, a
\* later put to a key replacing an earlier one.
PutObjectsAt(objs, basePath, files, codebaseName, order, outcome) ==
  LET ok(p) == outcome[p] = "ok"
      done == SelectSeq(order, ok)
      key(i) == ObjectPathAt(basePath, ObjectName(
                  processFile(done[i], files[done[i]], codebaseName).StorageKey))
      keys == {key(i) : i \in DOMAIN done}
      last(k) == CHOOSE i \in DOMAIN done :
                   key(i) = k /\ \A j \in DOMAIN done : key(j) = k => j <= i
  IN [k \in (DOMAIN objs) \cup keys |->
        IF k \in keys THEN StoredBytes(done[last(k)], files[done[last(k)]]) ELSE objs[k]]
\* The same, in the blob store in use.
PutObjects(objs, files, codebaseName, order, outcome) ==
  PutObjectsAt(objs, BasePath, files, codebaseName, order, outcome)

\* ------------------------------------------------------------- lineage engine
NoLink == [err |-> "", parent |-> None, linkType |-> ""]
LinkTo(parentVersion, linkType) ==
  [err |-> "", parent |-> parentVersion, linkType |-> linkType]

\* The three strategies: the parent each one finds for the new version.
AutoCreateBranchFromLink(codebaseID, newVersionID, childBranch, branchFrom) ==
  LET parentVersion == GetVersion(codebaseID, branchFrom.Branch, branchFrom.Version) IN
  IF parentVersion = None
    THEN [NoLink EXCEPT !.err = "source version not found"]
    ELSE LinkTo(parentVersion, LinkageTypeBranchFrom)

AutoCreateLinkForNewBranch(codebaseID, newVersionID, childBranch) ==
  LinkTo(FindLatestVersionInMain(codebaseID), LinkageTypeBranchFrom)

AutoCreateSequentialLink(codebaseID, branch, currentVersionID) ==
  LinkTo(FindLatestVersionInBranch(codebaseID, branch, currentVersionID),
         LinkageTypeSequential)

\* establishLinkage: the strategy chosen, over the store that holds the new version.
Linkage(codebaseID, versionID, branch, branchFrom) ==
  IF branchFrom # None
    THEN AutoCreateBranchFromLink(codebaseID, versionID, branch, branchFrom[1])
    ELSE IF IsNewBranch(codebaseID, branch, versionID)
           THEN AutoCreateLinkForNewBranch(codebaseID, versionID, branch)
           ELSE AutoCreateSequentialLink(codebaseID, branch, versionID)

establishLinkage(codebaseID, versionID, branch, branchFrom, io) ==
  LET link == Linkage(codebaseID, versionID, branch, branchFrom)' IN
  IF link.parent = None
    THEN UNCHANGED linkState
    ELSE CreateVersionLink(codebaseID, versionID, link.parent[1], branch,
                           link.linkType, io)
\* The error establishLinkage returns ("": none).
LinkageError(codebaseID, versionID, branch, branchFrom, io) ==
  LET link == Linkage(codebaseID, versionID, branch, branchFrom)' IN
  IF link.err # "" THEN link.err
  ELSE IF link.parent # None /\ ~LinkWritten(versionID, io)
         THEN "failed to create lineage relationship"
         ELSE ""

\* ----------------------------------------------------------- history service
\* A faulty variant: the graph is rebuilt whether it is cached or not.
GetVersionMapRebuilding(codebaseID, rank, io) ==
  historyCache' = IF ~io THEN historyCache
                  ELSE Put(historyCache, codebaseID, HistoryMap(codebaseID, rank)')
\* GetVersionMap over the store as the step leaves it: the cached graph stays; on a
\* miss RebuildHistoryCache writes the graph first (io: UpdateHistoryCache succeeds).
GetVersionMap(codebaseID, rank, io) ==
  historyCache' = IF codebaseID \in DOMAIN historyCache \/ ~io THEN historyCache
                  ELSE Put(historyCache, codebaseID, HistoryMap(codebaseID, rank)')
\* A faulty variant: what is returned is the graph as it would be built now.
VersionMapFresh(codebaseID) ==
  IF codebaseID \in DOMAIN historyCache
    THEN Some(HistoryMap(codebaseID, [id \in 1..MaxSnapshots |-> id]))
    ELSE None
\* What it returns: None when the graph cannot be had.
VersionMapGot(codebaseID) ==
  IF codebaseID \in DOMAIN historyCache THEN Some(historyCache[codebaseID]) ELSE None

\* ------------------------------------------------------------ ProcessSnapshot
AllSaved == [touch |-> TRUE, create |-> 2, link |-> TRUE, cache |-> TRUE]

persistMetadata(codebaseID, version, files, io) ==
  /\ Codebases' = [Codebases EXCEPT ![codebaseID].UpdatedAt = now']
  /\ diskCodebases' = save(diskCodebases, Codebases', io.touch)
  /\ IF io.touch THEN CreateVersion(version, files, io.create)
                 ELSE UNCHANGED versionState
Persisted(version, io) == io.touch /\ VersionCreated(version, io.create)

\* run: the completion order and the outcomes of the per-file units, the order
\* rank in which the links are ranged over, and the outcomes io of the writes of
\* the metadata store.
ProcessSnapshot(codebaseID, ver, branch, message, files, branchFrom, autoLinkage, run) ==
  /\ Ready
  /\ uuidVersion < MaxSnapshots
  /\ LET in == Some([codebaseID |-> codebaseID, ver |-> ver, branch |-> branch,
                     branchFrom |-> branchFrom, autoLinkage |-> autoLinkage,
                     files |-> files, outcome |-> run.outcome])
         failure(err, id) == [op |-> "snapshot", ok |-> FALSE, err |-> err, id |-> id,
                              in |-> in, out |-> None]
     IN
     IF codebaseID \notin DOMAIN Codebases
       THEN /\ resp' = failure("invalid codebase_id", NoVersionID)
            /\ UNCHANGED <<memory, disk, historyCache, objects, now, uuidCodebase,
                           uuidVersion, uuidLink, rebuilds, manager, building, temp,
                           access>>
       ELSE
         \E versionID \in {uuidVersion + 1} :
         LET name == Codebases[codebaseID].Name
             units == processFiles(files, name, run.order, run.outcome)
             version == [ID |-> versionID, CodebaseID |-> codebaseID, Version |-> ver,
                         Branch |-> branch, TreeID |-> versionID,
                         CreatedAt |-> now + 1, Stats |-> units.stats]
         IN
         /\ uuidVersion' = versionID
         /\ objects' = PutObjects(objects, files, name, run.order, run.outcome)
         /\ UNCHANGED <<uuidCodebase, rebuilds, manager, building, temp, access>>
         /\ IF units.errChan # <<>>
              THEN /\ resp' = failure("file", versionID)
                   /\ UNCHANGED <<memory, disk, historyCache, now, uuidLink>>
              ELSE
                /\ now' = now + 1
                /\ persistMetadata(codebaseID, version, units.processedFiles, run.io)
                /\ IF ~Persisted(version, run.io)
                     THEN /\ resp' = failure("persist", versionID)
                          /\ UNCHANGED <<linkState, historyCache>>
                     ELSE
                       /\ IF autoLinkage
                            THEN establishLinkage(codebaseID, versionID, branch,
                                                  branchFrom, run.io.link)
                            ELSE UNCHANGED linkState
                       /\ GetVersionMap(codebaseID, run.rank, run.io.cache)
                       /\ resp' = [op |-> "snapshot", ok |-> TRUE,
                                   err |-> IF autoLinkage
                                             THEN LinkageError(codebaseID, versionID,
                                                    branch, branchFrom, run.io.link)
                                             ELSE "",
                                   id |-> versionID, in |-> in,
                                   out |-> VersionMapGot(codebaseID)']

\* The response has been returned: the next request can be served.
Deliver ==
  /\ ~Ready
  /\ resp' = NoResp
  /\ flight' = IF resp.op = "snapshot" THEN None ELSE flight
  /\ UNCHANGED <<memory, disk, historyCache, objects, now, uuidCodebase, uuidVersion,
                 uuidLink, rebuilds, config, pair, parked, building, temp, access>>

\* ---------------------------------------------------------------- history API
\* The handler of the version graph.
GetVersionMapCall(codebaseID, rank, io) ==
  /\ Ready
  /\ UNCHANGED <<memory, disk, objects, now, uuidCodebase, uuidVersion, uuidLink,
                 rebuilds, manager, building, temp, access>>
  /\ GetVersionMap(codebaseID, rank, io)
  /\ resp' = [op |-> "map", ok |-> VersionMapGot(codebaseID)' # None, err |-> "",
              id |-> codebaseID, in |-> None, out |-> VersionMapGot(codebaseID)']

Pending(codebaseID) ==
  IF codebaseID \in DOMAIN rebuilds THEN rebuilds[codebaseID] ELSE 0
PendingRebuilds == Sum([i \in 1..MaxCodebases |-> Pending(i)])

\* HistoryService.CreateVersionLinkWithType, the manual link: on success the cache
\* rebuild is started detached.
CreateVersionLinkWithType(codebaseID, child, parent, linkageType, io) ==
  /\ Ready
  /\ PendingRebuilds + Len(building) < MaxRebuilds
  /\ LET childVersion == GetVersion(codebaseID, child.Branch, child.Version)
         parentVersion == GetVersion(codebaseID, parent.Branch, parent.Version)
         in == Some([codebaseID |-> codebaseID, child |-> childVersion,
                     parent |-> parentVersion])
         failure(err) == [op |-> "link", ok |-> FALSE, err |-> err, id |-> NoVersionID,
                          in |-> IF childVersion = None \/ parentVersion = None
                                   THEN None ELSE in,
                          out |-> None]
     IN IF childVersion = None
          THEN /\ resp' = failure("child version not found")
               /\ UNCHANGED <<linkState, rebuilds>>
        ELSE IF parentVersion = None
          THEN /\ resp' = failure("parent version not found")
               /\ UNCHANGED <<linkState, rebuilds>>
        ELSE /\ CreateVersionLink(codebaseID, childVersion[1], parentVersion[1],
                                  child.Branch, linkageType, io)
             /\ IF LinkWritten(childVersion[1], io)
                  THEN /\ rebuilds' = Put(rebuilds, codebaseID, Pending(codebaseID) + 1)
                       /\ resp' = [op |-> "link", ok |-> TRUE, err |-> "",
                                   id |-> childVersion[1], in |-> in, out |-> None]
                  ELSE /\ resp' = failure("version link insertion failed")
                       /\ UNCHANGED rebuilds
  /\ UNCHANGED <<Codebases, diskCodebases, versionState, historyCache, objects, now,
                 uuidCodebase, uuidVersion, manager, building, temp, access>>

\* A detached RebuildHistoryCache runs (io: UpdateHistoryCache succeeds).
RebuildHistoryCache(codebaseID, rank, io) ==
  /\ Pending(codebaseID) > 0
  /\ rebuilds' = [rebuilds EXCEPT ![codebaseID] = @ - 1]
  /\ historyCache' = IF io THEN Put(historyCache, codebaseID, HistoryMap(codebaseID, rank))
                             ELSE historyCache
  /\ UNCHANGED <<memory, disk, objects, now, uuidCodebase, uuidVersion, uuidLink, resp,
                 manager, building, temp, access>>

\* The detached RebuildHistoryCache in its two parts, between which other requests
\* and other rebuilds run: the three queries of the graph, then UpdateHistoryCache
\* (io: the write succeeds).
RebuildRead(codebaseID, rank) ==
  /\ Pending(codebaseID) > 0
  /\ rebuilds' = [rebuilds EXCEPT ![codebaseID] = @ - 1]
  /\ building' = Append(building, HistoryMap(codebaseID, rank))
  /\ UNCHANGED <<memory, disk, historyCache, objects, now, uuidCodebase, uuidVersion,
                 uuidLink, resp, manager, temp, access>>

RebuildWrite(i, io) ==
  /\ i \in DOMAIN building
  /\ historyCache' = IF io THEN Put(historyCache, building[i].CodebaseID, building[i])
                             ELSE historyCache
  /\ building' = SubSeq(building, 1, i - 1) \o SubSeq(building, i + 1, Len(building))
  /\ UNCHANGED <<memory, disk, objects, now, uuidCodebase, uuidVersion, uuidLink,
                 rebuilds, resp, manager, temp, access>>

\* -------------------------------------------------------------- archive API
FetchError(err) == [ok |-> FALSE, err |-> err, data |-> None]
\* The archive run in which every step succeeds.
ArchiveDone == [failed |-> {}, unwritable |-> {}, mkdir |-> TRUE, zip |-> TRUE]

\* storage.GetObject, then DecompressData unless the file is an image
\* (io: the read of an object that exists succeeds).
FetchFile(file, io) ==
  IF ObjectPath(ObjectName(file.StorageKey)) \notin DOMAIN objects \/ ~io
    THEN FetchError("file download failed")
    ELSE LET content == objects[ObjectPath(ObjectName(file.StorageKey))] IN
         IF file.Type # "image"
           THEN IF DecompressOK(content)
                  THEN [ok |-> TRUE, err |-> "", data |-> Some(DecompressData(content))]
                  ELSE FetchError("file decompression failed")
           ELSE [ok |-> TRUE, err |-> "", data |-> Some(content)]

\* The result of GetSingleFile.
SingleFile(codebaseID, branch, version, filePath, io) ==
  LET v == GetVersion(codebaseID, branch, version) IN
  IF v = None THEN FetchError("specified version not found")
  ELSE IF Versions[v[1]].TreeID \notin DOMAIN FileIndexes
    THEN FetchError("file index not found")
  ELSE LET files == FileIndexes[Versions[v[1]].TreeID]
           hits == {i \in DOMAIN files : files[i].Path = filePath}
       IN IF hits = {} THEN FetchError("file not found in version")
          ELSE FetchFile(files[CHOOSE i \in hits : \A j \in hits : i <= j], io)

GetSingleFile(codebaseID, branch, version, filePath, io) ==
  /\ Ready
  /\ LET got == SingleFile(codebaseID, branch, version, filePath, io) IN
     resp' = [op |-> "file", ok |-> got.ok, err |-> got.err, id |-> NoVersionID,
              in |-> Some([codebaseID |-> codebaseID, branch |-> branch,
                           version |-> version, path |-> filePath]),
              out |-> got.data]
  /\ UNCHANGED <<memory, disk, historyCache, objects, now, uuidCodebase, uuidVersion,
                 uuidLink, rebuilds, manager, building, temp, access>>

\* The result of CreateArchiveForVersion: the entries of the zip, by path
\* (failed: the files whose object cannot be read).
Archive(codebaseID, branch, version, failed) ==
  LET v == GetVersion(codebaseID, branch, version) IN
  IF v = None THEN FetchError("unable to get file list")
  ELSE IF Versions[v[1]].TreeID \notin DOMAIN FileIndexes
    THEN FetchError("unable to get file list")
  ELSE LET files == FileIndexes[Versions[v[1]].TreeID]
           got == [i \in DOMAIN files |-> FetchFile(files[i], files[i].Path \notin failed)]
       IN IF Len(files) = 0 THEN FetchError("no files found")
          ELSE IF \E i \in DOMAIN files : ~got[i].ok
            THEN FetchError("file reconstruction failed")
            ELSE [ok |-> TRUE, err |-> "",
                  data |-> Some([p \in {files[i].Path : i \in DOMAIN files} |->
                             got[CHOOSE i \in DOMAIN files : files[i].Path = p].data[1]])]

\* The directory os.MkdirTemp makes, as a path below the root directory, and
\* destPath := filepath.Join(destDir, f.Path) of a unit.
ReconstructionDir == <<<<"tmp">>, <<"codebase-reconstruction">>>>
DestPath(file) == Join(Flat(ReconstructionDir), Chars(file.Path))
\* The files of g written over those of f.
Merge(f, g) == [x \in DOMAIN f \cup DOMAIN g |-> IF x \in DOMAIN g THEN g[x] ELSE f[x]]

\* One per-file unit of reconstructFiles: fetch, decompress, write under the
\* reconstruction directory (io.failed: the objects that cannot be read,
\* io.unwritable: the files that cannot be written).
reconstructFile(file, io) ==
  LET got == FetchFile(file, file.Path \notin io.failed) IN
  IF ~got.ok THEN got
  ELSE IF file.Path \in io.unwritable THEN FetchError("file write failed")
  ELSE got

\* reconstructFiles: every unit runs to its end, in the completion order given;
\* the result is the files written and the first error sent on errChan, if any.
reconstructFiles(files, order, io) ==
  LET unit == [i \in DOMAIN files |-> reconstructFile(files[i], io)]
      errs == SelectSeq([k \in DOMAIN order |-> unit[order[k]]], LAMBDA u : ~u.ok)
      done == {i \in DOMAIN files : unit[i].ok}
      inside == {i \in done : Within(DestPath(files[i]), ReconstructionDir)}
  IN [written |-> [p \in {files[i].Path : i \in inside} |->
                     unit[CHOOSE i \in inside : files[i].Path = p].data[1]],
      outside |-> [d \in {DestPath(files[i]) : i \in done \ inside} |->
                     unit[CHOOSE i \in done \ inside : DestPath(files[i]) = d].data[1]],
      err |-> IF errs = <<>> THEN None ELSE Some(Head(errs).err)]

\* A return that leaves the reconstruction directory in place.
LeftInPlace(dirs, dir) == dirs

\* The deferred os.RemoveAll(reconstructionDir).
RemoveAll(dirs, dir) == dirs \ {dir}

\* ArchiveService.CreateArchiveForVersion: the answer, and the reconstruction
\* directories and zip files it leaves in the temporary directory (io.mkdir: the
\* directory can be created, io.zip: the zip can be written).
ArchiveRun(codebaseID, branch, version, order, io) ==
  LET v == GetVersion(codebaseID, branch, version)
      nothing(err) == [ok |-> FALSE, err |-> err, data |-> None, dirs |-> {}, zips |-> {},
                       files |-> Empty]
  IN
  IF v = None THEN nothing("unable to get file list")
  ELSE IF Versions[v[1]].TreeID \notin DOMAIN FileIndexes
    THEN nothing("unable to get file list")
  ELSE LET files == FileIndexes[Versions[v[1]].TreeID] IN
       IF Len(files) = 0 THEN nothing("no files found")
       ELSE IF ~io.mkdir THEN nothing("unable to create temporary reconstruction directory")
       ELSE LET rec == reconstructFiles(files, order, io)
                dirs == RemoveAll({rec.written}, rec.written)
            IN IF rec.err # None
                 THEN [nothing("file reconstruction failed")
                         EXCEPT !.dirs = dirs, !.files = rec.outside]
               ELSE IF ~io.zip
                 THEN [nothing("zip archive creation failed")
                         EXCEPT !.dirs = dirs, !.zips = {[partial |-> rec.written]},
                                !.files = rec.outside]
               ELSE [ok |-> TRUE, err |-> "", data |-> Some(rec.written),
                     dirs |-> dirs, zips |-> {[entries |-> rec.written]},
                     files |-> rec.outside]

\* ArchiveHandler.GetCodebaseArchive: the archive is created and served, and the
\* zip is removed once it has been served.
CreateArchiveForVersion(codebaseID, branch, version, io) ==
  /\ Ready
  /\ \E order \in Perms(IF GetVersion(codebaseID, branch, version) = None THEN {}
                         ELSE DOMAIN FileIndexes[Versions[GetVersion(codebaseID, branch, version)[1]].TreeID]) :
       \E got \in {ArchiveRun(codebaseID, branch, version, order, io)} :
         /\ resp' = [op |-> "archive", ok |-> got.ok, err |-> got.err, id |-> NoVersionID,
                     in |-> Some([codebaseID |-> codebaseID, branch |-> branch,
                                  version |-> version, io |-> io]),
                     out |-> got.data]
         /\ temp' = [dirs |-> temp.dirs \cup got.dirs,
                     zips |-> temp.zips \cup (IF got.ok THEN {} ELSE got.zips),
                     files |-> Merge(temp.files, got.files)]
  /\ UNCHANGED <<memory, disk, historyCache, objects, now, uuidCodebase, uuidVersion,
                 uuidLink, rebuilds, manager, building, access>>

\* --------------------------------------------------------------- delete API
\* The versions of the codebase in a collection of versions.
VersionsIn(versions, codebaseID) ==
  {v \in DOMAIN versions : versions[v].CodebaseID = codebaseID}
\* The files of the blob store in the directory or below it.
FilesUnder(objs, dirPath) == {k \in DOMAIN objs : Within(k, dirPath)}

\* A faulty variant: a removal that fails is reported as done.
DeleteObjectsIgnoringErrors(objs, prefix, gone) ==
  LET dirPath == Join(BasePath, prefix) IN
  IF Blank(prefix) \/ ~HasPrefix(Flat(dirPath), BasePath)
    THEN [ok |-> FALSE, objects |-> objs]
    ELSE [ok |-> TRUE, objects |-> Del(objs, FilesUnder(objs, dirPath) \cap gone)]

\* LocalStorage.DeleteObjectsWithPrefix: the directory filepath.Join(basePath,
\* prefix) is removed with all below it, unless the prefix is blank or the
\* directory, as a string, does not begin with basePath. gone: the files that
\* os.RemoveAll manages to remove; it fails when one of the directory is left.
DeleteObjectsWithPrefix(objs, prefix, gone) ==
  LET dirPath == Join(BasePath, prefix) IN
  IF Blank(prefix) \/ ~HasPrefix(Flat(dirPath), BasePath)
    THEN [ok |-> FALSE, objects |-> objs]
    ELSE [ok |-> FilesUnder(objs, dirPath) \subseteq gone,
          objects |-> Del(objs, FilesUnder(objs, dirPath) \cap gone)]

\* A faulty variant: the file indexes of the codebase stay.
DeleteCodebaseKeepingFileIndexes(id, io) ==
  LET relatedVersions == Range(VersionsOf(id)) IN
  /\ Codebases' = Del(Codebases, {id})
  /\ Versions' = Del(Versions, relatedVersions)
  /\ FileIndexes' = FileIndexes
  /\ VersionMapping' = Del(VersionMapping, relatedVersions)
  /\ versionIDByBranchAndName' =
       Del(versionIDByBranchAndName,
           {VersionKey(Versions[v].CodebaseID, Versions[v].Branch, Versions[v].Version) :
              v \in relatedVersions})
  /\ versionsByCodebase' = Del(versionsByCodebase, {id})
  /\ diskCodebases' = save(diskCodebases, Codebases', io.saves >= 1)
  /\ diskVersions' = save(diskVersions, Versions', io.saves >= 2)
  /\ diskFileIndexes' = save(diskFileIndexes, FileIndexes', io.saves >= 3)
  /\ diskVersionMapping' = save(diskVersionMapping, VersionMapping', io.saves >= 4)
  /\ historyCache' = IF io.saves = 4 /\ io.remove THEN Del(historyCache, {id})
                                                  ELSE historyCache

\* JSONFileProvider.DeleteCodebaseByID: the records go from the in-memory
\* collections, then the four files are saved in turn, then the cached graph is
\* removed. io.saves counts the saves that succeed before the first that fails
\* (4: all), io.remove is the outcome of os.Remove on a cache file that exists.
DeleteCodebaseByID(id, io) ==
  LET relatedVersions == Range(VersionsOf(id)) IN
  /\ Codebases' = Del(Codebases, {id})
  /\ Versions' = Del(Versions, relatedVersions)
  /\ FileIndexes' = Del(FileIndexes, {Versions[v].TreeID : v \in relatedVersions})
  /\ VersionMapping' = Del(VersionMapping, relatedVersions)
  /\ versionIDByBranchAndName' =
       Del(versionIDByBranchAndName,
           {VersionKey(Versions[v].CodebaseID, Versions[v].Branch, Versions[v].Version) :
              v \in relatedVersions})
  /\ versionsByCodebase' = Del(versionsByCodebase, {id})
  /\ diskCodebases' = save(diskCodebases, Codebases', io.saves >= 1)
  /\ diskVersions' = save(diskVersions, Versions', io.saves >= 2)
  /\ diskFileIndexes' = save(diskFileIndexes, FileIndexes', io.saves >= 3)
  /\ diskVersionMapping' = save(diskVersionMapping, VersionMapping', io.saves >= 4)
  /\ historyCache' = IF io.saves = 4 /\ io.remove THEN Del(historyCache, {id})
                                                  ELSE historyCache
\* Whether that call returns nil.
CodebaseDeleted(id, io) ==
  io.saves = 4 /\ (io.remove \/ id \notin DOMAIN historyCache)

\* DeleteService.DeleteCodebase, the handler of DELETE /codebases/:id.
\* io.gone: the files the blob store manages to remove.
DeleteCodebase(codebaseID, io) ==
  /\ Ready
  /\ LET failure(err) == [op |-> "delete", ok |-> FALSE, err |-> err,
                          id |-> codebaseID, in |-> None, out |-> None]
     IN
     IF codebaseID \notin DOMAIN Codebases
       THEN /\ resp' = failure("codebase not found")
            /\ UNCHANGED <<memory, disk, historyCache, objects>>
     ELSE LET prefix == Codebases[codebaseID].Name \o <<"/">>
              deleted == DeleteObjectsWithPrefix(objects, prefix, io.gone)
          IN /\ objects' = deleted.objects
             /\ IF ~deleted.ok
                  THEN /\ resp' = failure("failed to delete files from storage")
                       /\ UNCHANGED <<memory, disk, historyCache>>
                  ELSE /\ DeleteCodebaseByID(codebaseID, io)
                       /\ resp' = IF CodebaseDeleted(codebaseID, io)
                                    THEN [op |-> "delete", ok |-> TRUE, err |-> "",
                                          id |-> codebaseID, in |-> None, out |-> None]
                                    ELSE failure("metadata deletion failed")
  /\ UNCHANGED <<now, uuidCodebase, uuidVersion, uuidLink, rebuilds, manager, building, temp,
                 access>>

\* ------------------------------------------------------------ store calls
\* The calls of JSONFileProvider as they begin and end. A call is in access from
\* its first statement to its return, with the lock of p.mu it holds in between:
\* "W" after p.mu.Lock(), "R" after p.mu.RLock(), "none" for a call that takes
\* neither. doc is the codebase whose cache document the call reads or writes.
Unlocked == \A i \in DOMAIN access : access[i].lock = "none"
NoWriter == \A i \in DOMAIN access : access[i].lock # "W"
Writes(call) == call \in {"UpdateHistoryCache", "DeleteCodebaseByID"}
Drop(seq, i) == SubSeq(seq, 1, i - 1) \o SubSeq(seq, i + 1, Len(seq))
\* Two calls on the same cache document of which one writes it.
Conflict(a, call, doc) == a.doc = doc /\ (Writes(call) \/ Writes(a.call))
\* What an interrupted write of a document leaves: bytes that are no graph.
Torn(codebaseID) == [CodebaseID |-> codebaseID, torn |-> TRUE]

Begin(call, doc, lock, data) ==
  /\ Len(access) < MaxAccesses
  /\ lock = "W" => Unlocked
  /\ lock = "R" => NoWriter
  /\ access' =
       Append([i \in DOMAIN access |->
                 IF Conflict(access[i], call, doc)
                   THEN [access[i] EXCEPT !.raced = TRUE] ELSE access[i]],
              [call |-> call, doc |-> doc, lock |-> lock, data |-> data,
               raced |-> \E i \in DOMAIN access : Conflict(access[i], call, doc)])

\* UpdateHistoryCache as called by a detached rebuild: MkdirAll and WriteFile,
\* with no lock taken. A write that ran together with another access to the
\* document leaves its data or a torn document.
UpdateHistoryCacheBegin(i) ==
  /\ i \in DOMAIN building
  /\ Begin("UpdateHistoryCache", building[i].CodebaseID, "none", Some(building[i]))
  /\ building' = Drop(building, i)
  /\ UNCHANGED <<memory, disk, historyCache, objects, now, uuidCodebase, uuidVersion,
                 uuidLink, rebuilds, resp, manager, temp>>
UpdateHistoryCacheEnd(k, torn) ==
  /\ k \in DOMAIN access
  /\ access[k].call = "UpdateHistoryCache"
  /\ torn => access[k].raced
  /\ historyCache' = Put(historyCache, access[k].doc,
                         IF torn THEN Torn(access[k].doc) ELSE access[k].data[1])
  /\ access' = Drop(access, k)
  /\ UNCHANGED <<memory, disk, objects, now, uuidCodebase, uuidVersion, uuidLink,
                 rebuilds, resp, manager, building, temp>>

\* GetHistoryCache as called by GetVersionMap: Stat and ReadFile, with no lock
\* taken.
GetHistoryCacheBegin(codebaseID) ==
  /\ codebaseID \in DOMAIN Codebases
  /\ Begin("GetHistoryCache", codebaseID, "none", None)
  /\ UNCHANGED <<memory, disk, historyCache, objects, now, uuidCodebase, uuidVersion,
                 uuidLink, rebuilds, resp, manager, building, temp>>
GetHistoryCacheEnd(k) ==
  /\ k \in DOMAIN access
  /\ access[k].call = "GetHistoryCache"
  /\ access' = Drop(access, k)
  /\ UNCHANGED <<memory, disk, historyCache, objects, now, uuidCodebase, uuidVersion,
                 uuidLink, rebuilds, resp, manager, building, temp>>

\* DeleteCodebaseByID: the collections are changed and saved and the cache
\* document is removed between p.mu.Lock() and the deferred p.mu.Unlock().
DeleteCodebaseByIDBegin(id) ==
  /\ id \in DOMAIN Codebases
  /\ Begin("DeleteCodebaseByID", id, "W", None)
  /\ UNCHANGED <<memory, disk, historyCache, objects, now, uuidCodebase, uuidVersion,
                 uuidLink, rebuilds, resp, manager, building, temp>>
DeleteCodebaseByIDEnd(k) ==
  /\ k \in DOMAIN access
  /\ access[k].call = "DeleteCodebaseByID"
  /\ DeleteCodebaseByID(access[k].doc, [saves |-> 4, remove |-> TRUE])
  /\ access' = Drop(access, k)
  /\ UNCHANGED <<objects, now, uuidCodebase, uuidVersion, uuidLink, rebuilds, resp,
                 manager, building, temp>>

\* --------------------------------------------------------------- config API
\* The files below a metadata directory: the four collections and the cached
\* graphs; a directory never written holds none.
NoFiles == [Codebases |-> Empty, Versions |-> Empty, FileIndexes |-> Empty,
            VersionMapping |-> Empty, historyCache |-> Empty]
FilesAt(dbPath) ==
  IF dbPath = pair.provider
    THEN [Codebases |-> diskCodebases, Versions |-> diskVersions,
          FileIndexes |-> diskFileIndexes, VersionMapping |-> diskVersionMapping,
          historyCache |-> historyCache]
  ELSE IF dbPath \in DOMAIN parked THEN parked[dbPath]
  ELSE NoFiles

\* rebuildIndexes over the versions loaded: the versions of each codebase newest
\* first, and the id of each triple; Versions is ranged over in any order, so of
\* the versions of one triple any can be the one that stays.
VersionLists(versions) ==
  LET codebaseIDs == {versions[v].CodebaseID : v \in DOMAIN versions} IN
  {lists \in [codebaseIDs ->
                UNION {SortedNewestFirst(VersionsIn(versions, c), versions) :
                         c \in codebaseIDs}] :
     \A c \in codebaseIDs :
       lists[c] \in SortedNewestFirst(VersionsIn(versions, c), versions)}
VersionIDs(versions) ==
  LET keyOf(v) == VersionKey(versions[v].CodebaseID, versions[v].Branch,
                             versions[v].Version)
      keys == {keyOf(v) : v \in DOMAIN versions}
  IN {ids \in [keys -> DOMAIN versions] : \A k \in keys : keyOf(ids[k]) = k}

\* A faulty variant: the new blob store is put in place as soon as it is built.
ReinitializedStoreFirst(newConfig, io) ==
  [provider |-> IF io.store /\ io.provider THEN Bound(newConfig).provider
                                          ELSE pair.provider,
   store |-> IF io.store THEN Bound(newConfig).store ELSE pair.store]

\* reinitialize: the pair in place when it returns. io.store, io.provider: whether
\* NewLocalStorage and NewJSONFileProvider succeed.
Reinitialized(newConfig, io) ==
  IF io.store /\ io.provider THEN Bound(newConfig) ELSE pair

\* UpdateProviders: the configuration is set, then reinitialize builds the stores
\* of its storage path; the new metadata store loads the files of its directory.
UpdateProviders(newConfig, io) ==
  /\ Ready
  /\ config' = newConfig
  /\ pair' = Reinitialized(newConfig, io)
  /\ IF io.store /\ io.provider
       THEN LET dbPath == Bound(newConfig).provider
                files == FilesAt(dbPath)
            IN /\ parked' = IF dbPath = pair.provider THEN parked
                            ELSE Put(Del(parked, {dbPath}), pair.provider,
                                     FilesAt(pair.provider))
               /\ Codebases' = files.Codebases
               /\ Versions' = files.Versions
               /\ FileIndexes' = files.FileIndexes
               /\ VersionMapping' = files.VersionMapping
               /\ versionsByCodebase' \in VersionLists(files.Versions)
               /\ versionIDByBranchAndName' \in VersionIDs(files.Versions)
               /\ diskCodebases' = files.Codebases
               /\ diskVersions' = files.Versions
               /\ diskFileIndexes' = files.FileIndexes
               /\ diskVersionMapping' = files.VersionMapping
               /\ historyCache' = files.historyCache
               /\ resp' = [op |-> "config", ok |-> TRUE, err |-> "", id |-> 0,
                           in |-> None, out |-> None]
       ELSE /\ resp' = [op |-> "config", ok |-> FALSE,
                        err |-> IF io.store THEN "failed to load data"
                                ELSE "unable to create local storage directory",
                        id |-> 0, in |-> None, out |-> None]
            /\ UNCHANGED <<memory, disk, historyCache, parked>>
  /\ UNCHANGED <<objects, now, uuidCodebase, uuidVersion, uuidLink, rebuilds, flight,
                 building, temp, access>>

\* ------------------------------------------------- ProcessSnapshot, step by step
\* ProcessSnapshot as the calls it makes to the provider manager, between which a
\* reconfiguration can run. Every unit and every write succeeds; the metadata
\* store of a directory that is no longer bound holds what its files hold.
InFlight(pc) == Ready /\ flight # None /\ flight[1].pc = pc
NoHandle == <<>>

\* provider := core.GetProvider()
SnapshotGetProvider(codebaseID, ver, files) ==
  /\ Ready /\ flight = None
  /\ uuidVersion < MaxSnapshots
  /\ flight' = Some([pc |-> "store", codebaseID |-> codebaseID, ver |-> ver,
                     files |-> files, versionID |-> NoVersionID,
                     provider |-> pair.provider, store |-> NoHandle,
                     link |-> NoHandle, graph |-> NoHandle])
  /\ UNCHANGED <<memory, disk, historyCache, objects, now, uuidCodebase, uuidVersion,
                 uuidLink, rebuilds, resp, config, pair, parked, building, temp,
                 access>>

\* storage := core.GetStore()
SnapshotGetStore ==
  /\ InFlight("store")
  /\ flight' = Some([flight[1] EXCEPT !.pc = "create", !.store = pair.store])
  /\ UNCHANGED <<memory, disk, historyCache, objects, now, uuidCodebase, uuidVersion,
                 uuidLink, rebuilds, resp, config, pair, parked, building, temp,
                 access>>

\* GetCodebaseByID, CreateSnapshot and persistMetadata, with the two handles.
SnapshotCreate(order) ==
  /\ InFlight("create")
  /\ LET h == flight[1]
         held == FilesAt(h.provider)
         outcome == [p \in DOMAIN h.files |-> "ok"]
     IN
     IF h.codebaseID \notin DOMAIN held.Codebases
       THEN /\ resp' = [op |-> "snapshot", ok |-> FALSE, err |-> "invalid codebase_id",
                        id |-> NoVersionID, in |-> None, out |-> None]
            /\ flight' = Some([h EXCEPT !.pc = "done"])
            /\ UNCHANGED <<memory, disk, historyCache, objects, now, uuidVersion, parked>>
       ELSE
         \E versionID \in {uuidVersion + 1} :
         LET name == held.Codebases[h.codebaseID].Name
             units == processFiles(h.files, name, order, outcome)
             version == [ID |-> versionID, CodebaseID |-> h.codebaseID,
                         Version |-> h.ver, Branch |-> "main", TreeID |-> versionID,
                         CreatedAt |-> now + 1, Stats |-> units.stats]
         IN
         /\ uuidVersion' = versionID
         /\ now' = now + 1
         /\ objects' = PutObjectsAt(objects, Flat(h.store), h.files, name, order, outcome)
         /\ flight' = Some([h EXCEPT !.pc = "link", !.versionID = versionID])
         /\ IF h.provider = pair.provider
              THEN /\ persistMetadata(h.codebaseID, version, units.processedFiles,
                                      AllSaved)
                   /\ UNCHANGED parked
              ELSE /\ parked' =
                        Put(parked, h.provider,
                            [held EXCEPT
                               !.Codebases[h.codebaseID].UpdatedAt = now + 1,
                               !.Versions = Put(@, versionID, version),
                               !.FileIndexes = Put(@, versionID, units.processedFiles)])
                   /\ UNCHANGED <<Codebases, diskCodebases, versionState>>
         /\ UNCHANGED <<historyCache, resp>>
  /\ UNCHANGED <<linkState, uuidCodebase, rebuilds, config, pair, building, temp, access>>

\* establishLinkage: the lineage engine asks for the provider anew.
SnapshotLink ==
  /\ InFlight("link")
  /\ UNCHANGED <<Codebases, diskCodebases, versionState, historyCache, objects, now,
                 uuidCodebase, uuidVersion, rebuilds, resp, config, pair, parked,
                 building, temp, access>>
  /\ \E h \in {flight[1]} :
       /\ establishLinkage(h.codebaseID, h.versionID, "main", None, TRUE)
       /\ flight' = Some([h EXCEPT !.pc = "graph", !.link = pair.provider])

\* GetVersionMap: the history service asks for the provider anew; the response.
SnapshotGraph(rank) ==
  /\ InFlight("graph")
  /\ UNCHANGED <<memory, disk, objects, now, uuidCodebase, uuidVersion, uuidLink,
                 rebuilds, config, pair, parked, building, temp, access>>
  /\ \E h \in {flight[1]} :
       /\ GetVersionMap(h.codebaseID, rank, TRUE)
       /\ flight' = Some([h EXCEPT !.pc = "done", !.graph = pair.provider])
       /\ resp' = [op |-> "snapshot", ok |-> TRUE, err |-> "", id |-> h.versionID,
                   in |-> None, out |-> VersionMapGot(h.codebaseID)']

\* ------------------------------------------------------------- specifications
CodebaseIDs == 1..MaxCodebases
VersionIdentifiers == [Branch : Branches, Version : Labels]
BranchFroms == {None} \cup {Some(b) : b \in VersionIdentifiers}
NamesInUse == {Codebases[c].Name : c \in DOMAIN Codebases}

\* A run of the per-file units in which every unit succeeds, and every write of
\* the metadata store too.
KeyOrder == [id \in 1..MaxSnapshots |-> id]
GoodRuns(files) ==
  [order : Perms(DOMAIN files), outcome : {[p \in DOMAIN files |-> "ok"]},
   rank : {KeyOrder}, io : {AllSaved}]
\* The same, but that the writes of the link and of the cached graph succeed or fail.
SaveOutcomes == [touch : BOOLEAN, create : 0..2, link : BOOLEAN, cache : BOOLEAN]
LinkOutcomes == {io \in SaveOutcomes : io.touch /\ io.create = 2}
FailingLinkRuns(files) ==
  [order : Perms(DOMAIN files), outcome : {[p \in DOMAIN files |-> "ok"]},
   rank : {KeyOrder}, io : LinkOutcomes]

\* The uploads of the lineage runs: one text file.
OneFile == [p \in {"a.txt"} |-> BytesX]

\* The lineage runs: one codebase, snapshots of one file with automatic linkage on
\* two branches under two labels, with no branch_from or one that names the first
\* label of main, and manual links, whose detached rebuild has run when the next
\* request is served. Every write of the metadata store succeeds.
LineageBranchFroms == {None, Some([Branch |-> "main", Version |-> "v1"])}
Next ==
  \/ \E name \in {ProjName} \ NamesInUse :
       InitializeCodebase(name, "", "main", TRUE)
  \/ /\ PendingRebuilds = 0
     /\ \E codebaseID \in CodebaseIDs, ver \in Labels, branch \in Branches,
           branchFrom \in LineageBranchFroms, run \in GoodRuns(OneFile) :
          ProcessSnapshot(codebaseID, ver, branch, "", OneFile, branchFrom, TRUE, run)
  \/ /\ PendingRebuilds = 0
     /\ \E codebaseID \in CodebaseIDs, child, parent \in VersionIdentifiers :
          CreateVersionLinkWithType(codebaseID, child, parent, LinkageTypeSequential, TRUE)
  \/ \E codebaseID \in CodebaseIDs : RebuildHistoryCache(codebaseID, KeyOrder, TRUE)
  \/ Deliver

Spec == Init /\ [][Next]_vars

\* The runs with failing writes: one codebase, snapshots of one file on main under
\* two labels, with no branch_from or one that names the first label of main, and
\* manual links between the versions of main; the writes of a link and of the
\* cached graph succeed or fail.
MainIdentifiers == [Branch : {"main"}, Version : Labels]
NextIO ==
  \/ \E name \in {ProjName} \ NamesInUse :
       InitializeCodebase(name, "", "main", TRUE)
  \/ /\ PendingRebuilds = 0
     /\ \E codebaseID \in CodebaseIDs, ver \in Labels, branchFrom \in LineageBranchFroms,
           run \in FailingLinkRuns(OneFile) :
          ProcessSnapshot(codebaseID, ver, "main", "", OneFile, branchFrom, TRUE, run)
  \/ /\ PendingRebuilds = 0
     /\ \E codebaseID \in CodebaseIDs, child, parent \in MainIdentifiers, io \in BOOLEAN :
          CreateVersionLinkWithType(codebaseID, child, parent, LinkageTypeSequential, io)
  \/ \E codebaseID \in CodebaseIDs, io \in BOOLEAN :
       RebuildHistoryCache(codebaseID, KeyOrder, io)
  \/ Deliver

SpecIO == Init /\ [][NextIO]_vars

\* The content runs: codebases of one name or two, initialized before the first
\* snapshot; snapshots on main under two labels of a text file, of an image, or of
\* both with the same bytes, whose units complete in any order and succeed or fail;
\* fetches of single files and of archives. Every write of the metadata store
\* succeeds.
Uploads ==
  {[p \in {"a.txt"} |-> BytesX], [p \in {"b.png"} |-> BytesX],
   [p \in {"a.txt", "b.png"} |-> BytesX]}
UnitOutcomes(files) ==
  {o \in [DOMAIN files -> {"ok", "open", "compress", "put"}] :
     \A p \in DOMAIN files : IsImage(p) => o[p] # "compress"}
ContentRuns(files) ==
  [order : Perms(DOMAIN files), outcome : UnitOutcomes(files),
   rank : {KeyOrder}, io : {AllSaved}]
NextContent ==
  \/ /\ uuidVersion = 0
     /\ \E name \in {ProjName, LibName} \ (NamesInUse \ {ProjName}) :
          InitializeCodebase(name, "", "main", TRUE)
  \/ \E codebaseID \in CodebaseIDs, ver \in Labels, files \in Uploads :
       \E run \in ContentRuns(files) :
         ProcessSnapshot(codebaseID, ver, "main", "", files, None, TRUE, run)
  \/ \E codebaseID \in CodebaseIDs, ver \in Labels, filePath \in Paths :
       GetSingleFile(codebaseID, "main", ver, filePath, TRUE)
  \/ \E codebaseID \in CodebaseIDs, ver \in Labels :
       CreateArchiveForVersion(codebaseID, "main", ver, ArchiveDone)
  \/ Deliver

SpecContent == Init /\ [][NextContent]_vars

\* The deletion runs: codebases of two names, snapshots on main under two labels of
\* one text file of either content, and deletions in which the removal of the
\* blobs, each save of the metadata store and the removal of the cached graph
\* succeed or fail.
TextUploads == {[p \in {"a.txt"} |-> BytesX], [p \in {"a.txt"} |-> BytesY]}
DeleteOutcomes == [gone : SUBSET FilesUnder(objects, Join(BasePath, <<>>)),
                   saves : 0..4, remove : BOOLEAN]
NextDelete ==
  \/ \E name \in {ProjName, LibName} \ NamesInUse :
       InitializeCodebase(name, "", "main", TRUE)
  \/ \E codebaseID \in CodebaseIDs, ver \in Labels, files \in TextUploads :
       \E run \in GoodRuns(files) :
         ProcessSnapshot(codebaseID, ver, "main", "", files, None, TRUE, run)
  \/ \E codebaseID \in CodebaseIDs, io \in DeleteOutcomes :
       DeleteCodebase(codebaseID, io)
  \/ Deliver

SpecDelete == Init /\ [][NextDelete]_vars

\* The runs over names: codebases whose name is a plain one, ".", ".." or that of
\* a sibling directory of the root whose name begins with the root's, snapshots
\* of one text file on main, and deletions in which every write succeeds.
DotName == <<".">>
ParentName == <<"..">>
SiblingName == <<"..", "/", "oss", "2">>
AllRemoved == [gone |-> DOMAIN objects, saves |-> 4, remove |-> TRUE]
NextStore ==
  \/ \E name \in {ProjName, DotName, ParentName, SiblingName} \ NamesInUse :
       InitializeCodebase(name, "", "main", TRUE)
  \/ \E codebaseID \in CodebaseIDs, ver \in Labels, run \in GoodRuns(OneFile) :
       ProcessSnapshot(codebaseID, ver, "main", "", OneFile, None, TRUE, run)
  \/ \E codebaseID \in CodebaseIDs : DeleteCodebase(codebaseID, AllRemoved)
  \/ Deliver

SpecStore == Init /\ [][NextStore]_vars

\* The runs with reconfigurations: codebases of two names, snapshots of one text
\* file on main, and reconfigurations to the default storage path or another,
\* in which the construction of either store succeeds or fails.
OtherStoragePath == <<"other">>
StoragePaths == {DefaultStoragePath, OtherStoragePath}
NextConfig ==
  \/ \E name \in {ProjName, LibName} \ NamesInUse :
       InitializeCodebase(name, "", "main", TRUE)
  \/ \E codebaseID \in CodebaseIDs, ver \in Labels, run \in GoodRuns(OneFile) :
       ProcessSnapshot(codebaseID, ver, "main", "", OneFile, None, TRUE, run)
  \/ \E newConfig \in StoragePaths, io \in [store : BOOLEAN, provider : BOOLEAN] :
       UpdateProviders(newConfig, io)
  \/ Deliver

SpecConfig == Init /\ [][NextConfig]_vars

\* The runs with a reconfiguration under way: codebases of one name, snapshots of
\* one text file on main under one label served step by step, one at a time, and
\* reconfigurations that succeed, at most one while a snapshot is being served.
NextSwap ==
  \/ /\ flight = None
     /\ \E name \in {ProjName} \ NamesInUse :
          InitializeCodebase(name, "", "main", TRUE)
  \/ \E codebaseID \in CodebaseIDs :
       SnapshotGetProvider(codebaseID, "v1", OneFile)
  \/ SnapshotGetStore
  \/ \E order \in Perms(DOMAIN OneFile) : SnapshotCreate(order)
  \/ SnapshotLink
  \/ SnapshotGraph(KeyOrder)
  \/ /\ IF flight = None THEN TRUE ELSE flight[1].provider = pair.provider
     /\ \E newConfig \in StoragePaths \ {config} :
          UpdateProviders(newConfig, [store |-> TRUE, provider |-> TRUE])
  \/ Deliver

SpecSwap == Init /\ [][NextSwap]_vars

\* The runs over the cached graph: one codebase, snapshots of one text file on main
\* under two labels with automatic linkage, manual links between the versions of
\* main, requests for the graph, and detached rebuilds; VersionMapping is ranged
\* over in any order and the write of the cached graph by a request succeeds or
\* fails.
Ranks == Perms(1..MaxSnapshots)
RankedRuns(files) ==
  [order : Perms(DOMAIN files), outcome : {[p \in DOMAIN files |-> "ok"]},
   rank : Ranks, io : {AllSaved}]
NextCache ==
  \/ \E name \in {ProjName} \ NamesInUse :
       InitializeCodebase(name, "", "main", TRUE)
  \/ /\ PendingRebuilds = 0
     /\ \E codebaseID \in CodebaseIDs, ver \in Labels, run \in RankedRuns(OneFile) :
          ProcessSnapshot(codebaseID, ver, "main", "", OneFile, None, TRUE, run)
  \/ /\ PendingRebuilds = 0
     /\ \E codebaseID \in CodebaseIDs, child, parent \in MainIdentifiers :
          CreateVersionLinkWithType(codebaseID, child, parent, LinkageTypeSequential, TRUE)
  \/ /\ PendingRebuilds = 0
     /\ \E codebaseID \in CodebaseIDs, rank \in Ranks, io \in BOOLEAN :
          GetVersionMapCall(codebaseID, rank, io)
  \/ \E codebaseID \in CodebaseIDs, rank \in Ranks :
       RebuildHistoryCache(codebaseID, rank, TRUE)
  \/ Deliver

SpecCache == Init /\ [][NextCache]_vars

\* The runs with rebuilds under way: one codebase, snapshots of one text file on
\* main under two labels without automatic linkage, manual links between the
\* versions of main issued back to back, and detached rebuilds that read and write
\* in two steps. Every write succeeds. Each rebuild started is a goroutine the
\* runtime schedules: its read and its write come about.
NextLive ==
  \/ \E name \in {ProjName} \ NamesInUse :
       InitializeCodebase(name, "", "main", TRUE)
  \/ \E codebaseID \in CodebaseIDs, ver \in Labels, run \in GoodRuns(OneFile) :
       ProcessSnapshot(codebaseID, ver, "main", "", OneFile, None, FALSE, run)
  \/ \E codebaseID \in CodebaseIDs, child, parent \in MainIdentifiers :
       CreateVersionLinkWithType(codebaseID, child, parent, LinkageTypeSequential, TRUE)
  \/ \E codebaseID \in CodebaseIDs : RebuildRead(codebaseID, KeyOrder)
  \/ \E i \in 1..MaxRebuilds : RebuildWrite(i, TRUE)
  \/ Deliver

SpecLive ==
  /\ Init /\ [][NextLive]_vars
  /\ WF_vars(\E codebaseID \in CodebaseIDs : RebuildRead(codebaseID, KeyOrder))
  /\ WF_vars(\E i \in 1..MaxRebuilds : RebuildWrite(i, TRUE))

\* The archive runs: one codebase, snapshots on main under one label of a text
\* file, of an image, or of both with the same bytes; archives of a version in
\* which the read of each object and the write of the text file succeed or fail,
\* the reconstruction directory can be created or not, and the zip can be written
\* or not, the units completing in any order.
ArchiveRuns ==
  [failed : SUBSET {"a.txt", "b.png"}, unwritable : SUBSET {"a.txt"},
   mkdir : BOOLEAN, zip : BOOLEAN]
NextArchive ==
  \/ \E name \in {ProjName} \ NamesInUse :
       InitializeCodebase(name, "", "main", TRUE)
  \/ \E codebaseID \in CodebaseIDs, files \in Uploads :
       \E run \in GoodRuns(files) :
         ProcessSnapshot(codebaseID, "v1", "main", "", files, None, TRUE, run)
  \/ \E codebaseID \in CodebaseIDs, ver \in Labels, io \in ArchiveRuns :
       CreateArchiveForVersion(codebaseID, "main", ver, io)
  \/ Deliver

SpecArchive == Init /\ [][NextArchive]_vars

\* ------------------------------------------------------------ request decoding
\* The metadata of a snapshot request as decoded by json.Unmarshal into
\* CreateSnapshotContent: a field the JSON omits keeps the zero value of its
\* type, "" for a string and false for the bool auto_linkage.
Decoded(content) ==
  [version |-> IF content.version = None THEN "" ELSE content.version[1],
   branch |-> IF content.branch = None THEN "" ELSE content.branch[1],
   branch_from |-> content.branch_from,
   auto_linkage |-> IF content.auto_linkage = None THEN FALSE
                    ELSE content.auto_linkage[1]]

\* SnapshotHandler.CreateSnapshot: decode the metadata, set the default branch
\* and version, call ProcessSnapshot.
CreateSnapshot(codebaseID, content, files, run) ==
  \E req \in {Decoded(content)} :
    ProcessSnapshot(codebaseID,
                    IF req.version = "" THEN "v1" ELSE req.version,
                    IF req.branch = "" THEN "main" ELSE req.branch,
                    "", files, req.branch_from, req.auto_linkage, run)

\* The request runs: one codebase, snapshot requests of one file whose metadata
\* give or omit the branch, the version and auto_linkage.
Contents ==
  [version : {None, Some("v1"), Some("v2")}, branch : {None, Some("main"), Some("feature")},
   branch_from : {None}, auto_linkage : {None, Some(TRUE), Some(FALSE)}]
NextRequest ==
  \/ \E name \in {ProjName} \ NamesInUse :
       InitializeCodebase(name, "", "main", TRUE)
  \/ \E codebaseID \in CodebaseIDs, content \in Contents, run \in GoodRuns(OneFile) :
       CreateSnapshot(codebaseID, content, OneFile, run)
  \/ Deliver

SpecRequest == Init /\ [][NextRequest]_vars

\* The locking runs: one codebase, snapshots on main, manual links, and the calls
\* of the metadata store that take time: the detached rebuilds read under the
\* read lock and then write the cache document, the graph is read for a client,
\* the codebase is deleted. A handler that takes the write lock runs when no call
\* holds the lock, a rebuild reads when no call holds the write lock.
NextLock ==
  \/ /\ Unlocked
     /\ \E name \in {ProjName} \ NamesInUse : InitializeCodebase(name, "", "main", TRUE)
  \/ /\ Unlocked
     /\ \E codebaseID \in CodebaseIDs, run \in GoodRuns(OneFile) :
          ProcessSnapshot(codebaseID, "v1", "main", "", OneFile, None, TRUE, run)
  \/ /\ Unlocked
     /\ \E codebaseID \in CodebaseIDs, child, parent \in MainIdentifiers :
          CreateVersionLinkWithType(codebaseID, child, parent, LinkageTypeSequential, TRUE)
  \/ /\ NoWriter
     /\ \E codebaseID \in CodebaseIDs : RebuildRead(codebaseID, KeyOrder)
  \/ \E i \in 1..MaxRebuilds : UpdateHistoryCacheBegin(i)
  \/ \E k \in 1..MaxAccesses, torn \in BOOLEAN : UpdateHistoryCacheEnd(k, torn)
  \/ \E codebaseID \in CodebaseIDs : GetHistoryCacheBegin(codebaseID)
  \/ \E k \in 1..MaxAccesses : GetHistoryCacheEnd(k)
  \/ \E codebaseID \in CodebaseIDs : DeleteCodebaseByIDBegin(codebaseID)
  \/ \E k \in 1..MaxAccesses : DeleteCodebaseByIDEnd(k)
  \/ Deliver

SpecLock == Init /\ [][NextLock]_vars

\* The default-branch runs: one codebase initialized with the default branch
\* "trunk", snapshots of one file with automatic linkage and no branch_from on
\* trunk and on feature under two labels.
NextDefault ==
  \/ \E name \in {ProjName} \ NamesInUse :
       InitializeCodebase(name, "", "trunk", TRUE)
  \/ \E codebaseID \in CodebaseIDs, ver \in Labels, branch \in {"trunk", "feature"},
        run \in GoodRuns(OneFile) :
       ProcessSnapshot(codebaseID, ver, branch, "", OneFile, None, TRUE, run)
  \/ Deliver

SpecDefault == Init /\ [][NextDefault]_vars

\* The path runs: one codebase, snapshots on main under one label of one text
\* file uploaded under a plain relative path, under a path that starts with "..",
\* or under an absolute path; archives of the version in which every step
\* succeeds or the read of an object fails.
PathUploads ==
  {[p \in {"a.txt"} |-> BytesX], [p \in {"../a.txt"} |-> BytesX],
   [p \in {"/a.txt"} |-> BytesY], [p \in {"a.txt", "../a.txt"} |-> BytesY]}
NextPath ==
  \/ \E name \in {ProjName} \ NamesInUse :
       InitializeCodebase(name, "", "main", TRUE)
  \/ \E codebaseID \in CodebaseIDs, files \in PathUploads :
       \E run \in GoodRuns(files) :
         ProcessSnapshot(codebaseID, "v1", "main", "", files, None, TRUE, run)
  \/ \E codebaseID \in CodebaseIDs, failed \in SUBSET {"a.txt"} :
       CreateArchiveForVersion(codebaseID, "main", "v1", [ArchiveDone EXCEPT !.failed = failed])
  \/ Deliver

SpecPath == Init /\ [][NextPath]_vars

\* The statistics runs: one codebase, snapshots on main under one label of an
\* empty text file, an empty image, or a text file and an image of different
\* sizes, whose units complete in any order and succeed or fail.
BytesNone == Raw(<<>>)
StatUploads ==
  {[p \in {"a.txt"} |-> BytesNone], [p \in {"b.png"} |-> BytesNone],
   [p \in {"a.txt", "b.png"} |-> IF p = "a.txt" THEN BytesX ELSE BytesY]}
NextStats ==
  \/ \E name \in {ProjName} \ NamesInUse :
       InitializeCodebase(name, "", "main", TRUE)
  \/ \E codebaseID \in CodebaseIDs, files \in StatUploads :
       \E run \in ContentRuns(files) :
         ProcessSnapshot(codebaseID, "v1", "main", "", files, None, TRUE, run)
  \/ Deliver

SpecStats == Init /\ [][NextStats]_vars

\* ------------------------------------------------------------ lineage properties
\* The response to a snapshot that succeeded with automatic linkage.
Snapshotted == resp.op = "snapshot" /\ resp.ok /\ resp.in[1].autoLinkage
\* The links whose child is the version.
LinksIn(mapping, versionID) ==
  {c \in DOMAIN mapping : mapping[c].ChildVersionID = versionID}
LinksOf(versionID) == LinksIn(VersionMapping, versionID)
\* The versions of the codebase on the branch, versionID aside.
OthersOn(codebaseID, branch, versionID) ==
  {v \in DOMAIN Versions : /\ Versions[v].CodebaseID = codebaseID
                           /\ Versions[v].Branch = branch
                           /\ v # versionID}
\* The versions of the codebase, versionID aside.
Others(codebaseID, versionID) ==
  {v \in DOMAIN Versions : Versions[v].CodebaseID = codebaseID /\ v # versionID}
\* The version of the latest creation timestamp.
Latest(vs) == CHOOSE v \in vs : \A w \in vs : Versions[w].CreatedAt <= Versions[v].CreatedAt
\* The version has one link, of the type, to the parent.
LinkedIn(mapping, versionID, parentID, linkType) ==
  /\ Cardinality(LinksIn(mapping, versionID)) = 1
  /\ versionID \in DOMAIN mapping
  /\ mapping[versionID].ChildVersionID = versionID
  /\ mapping[versionID].ParentVersionID = parentID
  /\ mapping[versionID].LinkageType = linkType
LinkedTo(versionID, parentID, linkType) ==
  LinkedIn(VersionMapping, versionID, parentID, linkType)

\* C1: a version is the child of at most one link, and a link once written is
\* never altered: a CreateVersionLink for a child that has a link returns success
\* and leaves the link (its id, parent and linkage type) as it was, whether the
\* save of version_mapping.json would succeed or fail.
AtMostOneParent ==
  [][/\ \A c \in DOMAIN VersionMapping :
          c \in DOMAIN VersionMapping' /\ VersionMapping'[c] = VersionMapping[c]
     /\ \A v \in DOMAIN Versions' : Cardinality(LinksIn(VersionMapping', v)) <= 1
     /\ (/\ resp' # resp
         /\ resp'.op = "link"
         /\ resp'.in # None
         /\ resp'.in[1].child[1] \in DOMAIN VersionMapping)
        => resp'.ok /\ UNCHANGED linkState]_vars
\* A manual link for a child whose link has another parent has returned success.
SecondLinkAnswered ==
  /\ resp.op = "link"
  /\ resp.ok
  /\ VersionMapping[resp.id].ParentVersionID # resp.in[1].parent[1]

\* C2: the links form a forest: following parent links from a version never leads
\* back to that version; no link has the same version as child and parent.
RECURSIVE Reaches(_, _, _)
Reaches(v, w, n) ==
  /\ n > 0
  /\ v \in DOMAIN VersionMapping
  /\ \/ VersionMapping[v].ParentVersionID = w
     \/ Reaches(VersionMapping[v].ParentVersionID, w, n - 1)
Forest ==
  \A v \in DOMAIN Versions : ~Reaches(v, v, Cardinality(DOMAIN VersionMapping))

\* C6: a snapshot with automatic linkage and no branch_from, on a branch that has
\* another version, gets exactly one link: sequential, to the version of the same
\* branch with the latest creation timestamp among the versions other than the new.
SequentialLinkToLatest ==
  (/\ Snapshotted
   /\ resp.in[1].branchFrom = None
   /\ OthersOn(resp.in[1].codebaseID, resp.in[1].branch, resp.id) # {})
  => LinkedTo(resp.id,
              Latest(OthersOn(resp.in[1].codebaseID, resp.in[1].branch, resp.id)),
              LinkageTypeSequential)
\* The third snapshot on main has been linked to the second.
ThirdOnMainLinked ==
  /\ Snapshotted
  /\ resp.in[1].branchFrom = None
  /\ resp.in[1].branch = "main"
  /\ Cardinality(OthersOn(resp.in[1].codebaseID, "main", resp.id)) = 2
  /\ resp.id \in DOMAIN VersionMapping
  /\ VersionMapping[resp.id].LinkageType = LinkageTypeSequential

\* C7: where only main has versions, the first snapshot on another branch, with
\* automatic linkage and no branch_from, gets exactly one link: branch_from, to the
\* latest version of main; the second snapshot on that branch gets a sequential
\* link to the first version of that branch, not to a version of main.
NewBranchDetection ==
  LET codebaseID == resp.in[1].codebaseID
      branch == resp.in[1].branch
      onBranch == OthersOn(codebaseID, branch, resp.id)
      onMain == OthersOn(codebaseID, "main", resp.id)
  IN (/\ Snapshotted
      /\ resp.in[1].branchFrom = None
      /\ branch # "main"
      /\ onMain # {}
      /\ Others(codebaseID, resp.id) = onMain \cup onBranch)
     => /\ onBranch = {} => LinkedTo(resp.id, Latest(onMain), LinkageTypeBranchFrom)
        /\ Cardinality(onBranch) = 1 =>
             /\ LinkedTo(resp.id, Latest(onBranch), LinkageTypeSequential)
             /\ Versions[VersionMapping[resp.id].ParentVersionID].Branch = branch
\* The second snapshot on feature has been linked to the first, which forks from main.
SecondOnFeatureLinked ==
  /\ Snapshotted
  /\ resp.in[1].branchFrom = None
  /\ resp.in[1].branch = "feature"
  /\ resp.id \in DOMAIN VersionMapping
  /\ LET first == VersionMapping[resp.id].ParentVersionID IN
       /\ OthersOn(resp.in[1].codebaseID, "feature", resp.id) = {first}
       /\ first \in DOMAIN VersionMapping
       /\ VersionMapping[first].LinkageType = LinkageTypeBranchFrom
       /\ Versions[VersionMapping[first].ParentVersionID].Branch = "main"

\* C8: a snapshot with automatic linkage and no branch_from that is the first
\* version of its codebase, on any branch, succeeds and gets no link.
RootHasNoLink ==
  (/\ resp.op = "snapshot"
   /\ resp.in[1].autoLinkage
   /\ resp.in[1].branchFrom = None
   /\ resp.in[1].codebaseID \in DOMAIN Codebases
   /\ Others(resp.in[1].codebaseID, resp.id) = {})
  => resp.ok /\ LinksOf(resp.id) = {}

\* C9: a snapshot with automatic linkage whose branch_from names a (branch, label)
\* of a version of the codebase gets exactly one link: branch_from, child the new
\* version, parent the version the (branch, label) named when the request came.
BranchFromLinksToNamed ==
  [][(/\ resp' # resp
      /\ Snapshotted'
      /\ resp'.in[1].branchFrom # None
      /\ GetVersion(resp'.in[1].codebaseID, resp'.in[1].branchFrom[1].Branch,
                    resp'.in[1].branchFrom[1].Version) # None)
     => LinkedIn(VersionMapping', resp'.id,
                 GetVersion(resp'.in[1].codebaseID, resp'.in[1].branchFrom[1].Branch,
                            resp'.in[1].branchFrom[1].Version)[1],
                 LinkageTypeBranchFrom)]_vars

\* C10: a snapshot whose lineage linking fails (branch_from names no version, or the
\* write of the link returns an error) succeeds all the same: its version and file
\* index are committed and retrievable, and the version has no link.
LinkageFailureKeepsSnapshot ==
  (/\ resp.op = "snapshot"
   /\ resp.in[1].autoLinkage
   /\ resp.err \in {"source version not found", "failed to create lineage relationship"})
  => /\ resp.ok
     /\ GetVersion(resp.in[1].codebaseID, resp.in[1].branch, resp.in[1].ver) = Some(resp.id)
     /\ Versions[resp.id].TreeID \in DOMAIN FileIndexes
     /\ resp.id \in DOMAIN diskVersions
     /\ Versions[resp.id].TreeID \in DOMAIN diskFileIndexes
     /\ LinksOf(resp.id) = {}

\* ------------------------------------------------------------ content properties
\* The File records of the version, and the name of its codebase.
FilesOf(versionID) == FileIndexes[Versions[versionID].TreeID]
NameOf(versionID) == Codebases[Versions[versionID].CodebaseID].Name
\* The ids the metadata store holds anywhere, in memory or on disk.
StoredIDs ==
  DOMAIN Versions \cup DOMAIN diskVersions \cup DOMAIN FileIndexes
    \cup DOMAIN diskFileIndexes \cup DOMAIN VersionMapping \cup DOMAIN diskVersionMapping
    \cup {versionIDByBranchAndName[k] : k \in DOMAIN versionIDByBranchAndName}
    \cup UNION {Range(versionsByCodebase[c]) : c \in DOMAIN versionsByCodebase}
    \cup {VersionMapping[c].ChildVersionID : c \in DOMAIN VersionMapping}

\* C3: when a per-file unit of a snapshot fails (open/read, compression or put),
\* ProcessSnapshot returns an error and the metadata store holds no version, no
\* file index and no link of that snapshot, whatever the order of completion.
FailedUnitCommitsNothing ==
  (/\ resp.op = "snapshot"
   /\ resp.in[1].codebaseID \in DOMAIN Codebases
   /\ \E p \in DOMAIN resp.in[1].outcome : resp.in[1].outcome[p] # "ok")
  => ~resp.ok /\ resp.id \notin StoredIDs
\* A snapshot has failed on one unit after another unit has put its blob.
UnitFailedAfterPut ==
  /\ resp.op = "snapshot"
  /\ ~resp.ok
  /\ resp.in[1].codebaseID \in DOMAIN Codebases
  /\ \E p, q \in DOMAIN resp.in[1].files :
       /\ resp.in[1].outcome[p] = "ok"
       /\ resp.in[1].outcome[q] # "ok"
       /\ ObjectPath(ObjectName(StorageKey(Codebases[resp.in[1].codebaseID].Name,
                     CalculateHash(resp.in[1].files[p])))) \in DOMAIN objects

\* C4: a file of a committed version, fetched alone or in the archive of its
\* version, comes back with the bytes that were uploaded, whose hash is the hash
\* of its File record, whatever snapshots were made since.
RoundTrip ==
  /\ resp.op = "file" =>
       LET v == GetVersion(resp.in[1].codebaseID, resp.in[1].branch, resp.in[1].version)
       IN \A i \in (IF v = None THEN {} ELSE DOMAIN FilesOf(v[1])) :
            FilesOf(v[1])[i].Path = resp.in[1].path
              => resp.ok /\ CalculateHash(resp.out[1]) = FilesOf(v[1])[i].Hash
  /\ resp.op = "archive" =>
       LET v == GetVersion(resp.in[1].codebaseID, resp.in[1].branch, resp.in[1].version)
       IN \A i \in (IF v = None THEN {} ELSE DOMAIN FilesOf(v[1])) :
            /\ resp.ok
            /\ CalculateHash(resp.out[1][FilesOf(v[1])[i].Path]) = FilesOf(v[1])[i].Hash

\* C5: files of identical bytes stored under one codebase name have one storage
\* key, <codebaseName>/<hash of the original bytes>, and one blob; the same bytes
\* stored under another codebase name have another key.
Dedup ==
  (resp.op = "snapshot" /\ resp.ok) =>
    LET name == NameOf(resp.id)
        files == resp.in[1].files
        key(p) == StorageKey(name, CalculateHash(files[p]))
    IN /\ \A i \in DOMAIN FilesOf(resp.id) :
            FilesOf(resp.id)[i].StorageKey = key(FilesOf(resp.id)[i].Path)
       /\ \A p \in DOMAIN files :
            /\ ObjectPath(ObjectName(key(p))) \in DOMAIN objects
            /\ Cardinality({k \in DOMAIN objects :
                              /\ Within(k, Join(BasePath, name))
                              /\ objects[k].d = files[p].d}) = 1
            /\ \A w \in DOMAIN Versions : \A j \in DOMAIN FilesOf(w) :
                 FilesOf(w)[j].Hash = CalculateHash(files[p])
                   => (FilesOf(w)[j].StorageKey = key(p) <=> NameOf(w) = name)
\* The bytes of a snapshot are also in an earlier version of a codebase of the same
\* name and in a version of a codebase of another name.
SameBytesStoredAgain ==
  /\ resp.op = "snapshot"
  /\ resp.ok
  /\ \E p \in DOMAIN resp.in[1].files : \E w, x \in DOMAIN Versions \ {resp.id} :
       /\ NameOf(w) = NameOf(resp.id)
       /\ NameOf(x) # NameOf(resp.id)
       /\ \E j \in DOMAIN FilesOf(w) : FilesOf(w)[j].Hash = CalculateHash(resp.in[1].files[p])
       /\ \E j \in DOMAIN FilesOf(x) : FilesOf(x)[j].Hash = CalculateHash(resp.in[1].files[p])

\* ----------------------------------------------------------- deletion properties
\* The step is the handler of a deletion answering.
DeleteAnswers == Ready /\ resp'.op = "delete"
\* The links of a collection that touch one of a set of versions.
LinksTouching(mapping, versionIDs) ==
  {c \in DOMAIN mapping :
     c \in versionIDs \/ mapping[c].ParentVersionID \in versionIDs}

\* C11: when a deletion of a codebase succeeds, the codebase, its versions (by
\* id and by triple), their file indexes, the links whose child or parent is one
\* of its versions and its cached graph are in neither the in-memory nor the
\* persisted collections, and no file of the blob store lies under its name.
DeletionCompleteness ==
  [][(DeleteAnswers /\ resp'.ok) =>
       \E id \in {resp'.id} :
         LET related == VersionsIn(Versions, id) \cup VersionsIn(diskVersions, id)
             trees == {Versions[v].TreeID : v \in VersionsIn(Versions, id)}
             triples == {VersionKey(id, Versions[v].Branch, Versions[v].Version) :
                           v \in VersionsIn(Versions, id)}
         IN /\ id \notin DOMAIN Codebases' \cup DOMAIN diskCodebases'
            /\ related \cap (DOMAIN Versions' \cup DOMAIN diskVersions') = {}
            /\ triples \cap DOMAIN versionIDByBranchAndName' = {}
            /\ id \notin DOMAIN versionsByCodebase'
            /\ trees \cap (DOMAIN FileIndexes' \cup DOMAIN diskFileIndexes') = {}
            /\ LinksTouching(VersionMapping', related) = {}
            /\ LinksTouching(diskVersionMapping', related) = {}
            /\ id \notin DOMAIN historyCache'
            /\ FilesUnder(objects', Join(BasePath, Codebases[id].Name)) = {}
    ]_vars
\* The one codebase there was is deleted with the two versions it had, their
\* blobs and its cached graph.
DeletedWithVersions ==
  /\ resp.op = "delete" /\ resp.ok
  /\ uuidCodebase = 1 /\ uuidVersion = 2
  /\ Versions = Empty /\ objects = Empty /\ historyCache = Empty

\* C12: a deletion whose codebase is unknown, or in which the blob store reports
\* an error or leaves a file under the name of the codebase, answers with an
\* error and leaves the metadata store, in memory and persisted, and the cached
\* graphs as they were.
BlobsBeforeMetadata ==
  [][(DeleteAnswers /\
        \/ resp'.id \notin DOMAIN Codebases
        \/ resp'.err = "failed to delete files from storage"
        \/ \E id \in {resp'.id} :
             /\ id \in DOMAIN Codebases
             /\ FilesUnder(objects', Join(BasePath, Codebases[id].Name)) # {})
       => /\ ~resp'.ok
          /\ UNCHANGED <<memory, disk, historyCache>>
    ]_vars
\* A deletion fails in the blob store for a codebase that has a version, a blob
\* and a cached graph.
BlobDeletionFailed ==
  /\ resp.op = "delete" /\ resp.err = "failed to delete files from storage"
  /\ resp.id \in DOMAIN Codebases
  /\ VersionsOf(resp.id) # <<>>
  /\ resp.id \in DOMAIN historyCache
  /\ FilesUnder(objects, Join(BasePath, Codebases[resp.id].Name)) # {}

\* The records of the codebase a collection holds, by collection.
RecordsOf(codebaseID, codebases, versions, fileIndexes, mapping) ==
  [codebases |-> {codebaseID} \cap DOMAIN codebases,
   versions |-> VersionsIn(versions, codebaseID),
   fileIndexes |-> {t \in DOMAIN fileIndexes :
                      \E v \in VersionsIn(Versions, codebaseID) : Versions[v].TreeID = t},
   links |-> {c \in DOMAIN mapping : mapping[c].CodebaseID = codebaseID}]

\* C13: when a deletion fails in the metadata store, the in-memory collections
\* and the saved files hold the same records of the codebase, and the
\* collections and the cached graph that held records of it before either all
\* still hold them or have all lost them.
TransactionalDelete ==
  [][(DeleteAnswers /\ resp'.err = "metadata deletion failed") =>
       \E id \in {resp'.id} :
         LET before == RecordsOf(id, Codebases, Versions, FileIndexes, VersionMapping)
             inMemory == RecordsOf(id, Codebases', Versions', FileIndexes',
                                   VersionMapping')
             saved == RecordsOf(id, diskCodebases', diskVersions', diskFileIndexes',
                                diskVersionMapping')
             held == {c \in DOMAIN before : before[c] # {}}
         IN /\ inMemory = saved
            /\ \/ /\ \A c \in held : inMemory[c] = before[c]
                  /\ id \in DOMAIN historyCache => id \in DOMAIN historyCache'
               \/ /\ \A c \in held : inMemory[c] = {}
                  /\ id \notin DOMAIN historyCache'
    ]_vars

\* C14: a deletion in the blob store whose prefix is blank, or resolves to the
\* root or to a place that is not below the root, reports an error and removes
\* nothing; whatever a deletion removes lies below the root.
PrefixContained ==
  [][(DeleteAnswers /\ resp'.id \in DOMAIN Codebases) =>
       \E id \in {resp'.id} :
         LET prefix == Codebases[id].Name \o <<"/">>
             dirPath == Join(BasePath, prefix)
             root == Join(BasePath, <<>>)
         IN /\ (Blank(prefix) \/ dirPath = root \/ ~Within(dirPath, root))
                 => /\ resp'.err = "failed to delete files from storage"
                    /\ objects' = objects
            /\ \A k \in DOMAIN objects \ DOMAIN objects' : Within(k, root) /\ k # root
    ]_vars

\* ----------------------------------------------------- reconfiguration properties
\* C15: a reconfiguration in which the construction of either store fails answers
\* with an error and leaves the pair, and the records seen through it, as they
\* were; one in which both succeed leaves both stores bound to the new storage
\* path. The records seen through a pair of another directory are those saved
\* below that directory, none of the directory left, and no blob is written.
AllOrNothing ==
  [][(Ready /\ resp'.op = "config") =>
       /\ ~resp'.ok => UNCHANGED <<pair, memory, disk, historyCache, objects>>
       /\ resp'.ok =>
            /\ pair' = Bound(config')
            /\ objects' = objects
            /\ pair'.provider # pair.provider =>
                 \E was \in {FilesAt(pair'.provider)} :
                   /\ Codebases' = was.Codebases
                   /\ Versions' = was.Versions
                   /\ FileIndexes' = was.FileIndexes
                   /\ VersionMapping' = was.VersionMapping
                   /\ historyCache' = was.historyCache
                   /\ DOMAIN versionsByCodebase' \subseteq DOMAIN was.Codebases
                   /\ parked'[pair.provider] = FilesAt(pair.provider)
    ]_vars
\* A reconfiguration back to the default storage path has succeeded; either
\* directory holds a codebase of its own, with a version.
ReconfiguredBack ==
  /\ resp.op = "config" /\ resp.ok
  /\ pair = Bound(DefaultStoragePath)
  /\ Bound(OtherStoragePath).provider \in DOMAIN parked
  /\ \E c \in DOMAIN Codebases : VersionsOf(c) # <<>>
  /\ \E c \in DOMAIN parked[Bound(OtherStoragePath).provider].Codebases :
       /\ c \notin DOMAIN Codebases
       /\ VersionsIn(parked[Bound(OtherStoragePath).provider].Versions, c) # {}

\* The storage path a store's directory lies below.
RootOf(dir) == SubSeq(dir, 1, Len(dir) - 1)

\* C16: the stores a snapshot uses are one pair: the blob store lies below the
\* storage path of the metadata store that writes the version, and the lineage
\* link and the graph are written and read with that same metadata store.
OnePairPerOperation ==
  flight # None =>
    /\ flight[1].store # NoHandle => RootOf(flight[1].store) = RootOf(flight[1].provider)
    /\ flight[1].link # NoHandle => flight[1].link = flight[1].provider
    /\ flight[1].graph # NoHandle => flight[1].graph = flight[1].provider

NodeIDs(graph) == {graph.Nodes[i].ID : i \in DOMAIN graph.Nodes}

ResponseHasUpdatedGraph ==
  (resp.op = "snapshot" /\ resp.ok) =>
    /\ resp.out # None
    /\ resp.id \in NodeIDs(resp.out[1])
    /\ resp.id \in DOMAIN VersionMapping =>
         \E i \in DOMAIN resp.out[1].Edges :
           /\ resp.out[1].Edges[i].To = resp.id
           /\ resp.out[1].Edges[i].From = VersionMapping[resp.id].ParentVersionID

\* C20: a rebuild for a codebase whose cached graph is one built from the
\* versions and links as they are writes that cached graph again.
RebuildIdempotent ==
  [][\A id \in CodebaseIDs :
       (/\ Pending(id)' < Pending(id)
        /\ id \in DOMAIN historyCache
        /\ \E rank \in Ranks : historyCache[id] = HistoryMap(id, rank))
         => historyCache'[id] = historyCache[id]
    ]_vars

\* The graph is that of the codebase in the collections given: a node for each
\* of its versions, an edge for each of its links, and for each branch that has
\* versions the one created last.
GraphOf(graph, codebaseID, versions, mapping) ==
  LET own == VersionsIn(versions, codebaseID)
      links == {c \in DOMAIN mapping : mapping[c].CodebaseID = codebaseID}
  IN /\ NodeIDs(graph) = own
     /\ Len(graph.Nodes) = Cardinality(own)
     /\ Range(graph.Edges) = {[From |-> mapping[c].ParentVersionID,
                               To |-> mapping[c].ChildVersionID,
                               LinkageType |-> mapping[c].LinkageType] : c \in links}
     /\ Len(graph.Edges) = Cardinality(links)
     /\ DOMAIN graph.Refs = {versions[v].Branch : v \in own}
     /\ \A b \in DOMAIN graph.Refs :
          /\ graph.Refs[b] \in own
          /\ versions[graph.Refs[b]].Branch = b
          /\ \A v \in own : versions[v].Branch = b =>
                versions[v].CreatedAt <= versions[graph.Refs[b]].CreatedAt

\* C21: the graph a rebuild writes, by a detached rebuild or on a miss, is the
\* graph of the codebase as the store holds it at that moment.
RebuildWritesGraphOfStore ==
  [][\A id \in CodebaseIDs :
       (\/ Pending(id)' < Pending(id)
        \/ id \notin DOMAIN historyCache /\ id \in DOMAIN historyCache')
         => GraphOf(historyCache'[id], id, Versions', VersionMapping')
    ]_vars
\* The cached graph of a codebase with two versions on main has both nodes, and
\* the second version as the head of main.
RefsMainIsSecond ==
  /\ uuidVersion = 2
  /\ 1 \in DOMAIN historyCache
  /\ NodeIDs(historyCache[1]) = {1, 2}
  /\ Versions[1].Branch = "main" /\ Versions[2].Branch = "main"
  /\ historyCache[1].Refs["main"] = 2

\* C22: when every rebuild started by a manual link comes to run, from some
\* moment on the cached graph of every codebase that has links has exactly those
\* links as edges.
LinksEventuallyCached ==
  <>[](\A id \in DOMAIN Codebases :
         EdgeSet(id) # {} =>
           /\ id \in DOMAIN historyCache
           /\ Range(historyCache[id].Edges) = EdgeSet(id))
\* ------------------------------------------------------- durability properties
\* The persisted collections hold the records of the in-memory collections.
PersistedIsMemory ==
  /\ diskCodebases = Codebases
  /\ diskVersions = Versions
  /\ diskFileIndexes = FileIndexes
  /\ diskVersionMapping = VersionMapping

\* C23: after an initialization, a snapshot without a linkage error or a manual
\* link that answers success, that is after a mutating operation of the metadata
\* store returned success, the persisted codebases, versions, file indexes and
\* links are exactly the in-memory ones.
DurableOnSuccess ==
  (resp.op \in {"init", "snapshot", "link"} /\ resp.ok /\ resp.err = "")
    => PersistedIsMemory

\* -------------------------------------------------------- identity properties
\* The triple under which a version is stored.
TripleOf(v) == <<Versions[v].CodebaseID, Versions[v].Branch, Versions[v].Version>>

\* C24: no two stored versions have the same codebase, branch and label.
UniqueTriple ==
  \A v, w \in DOMAIN Versions : TripleOf(v) = TripleOf(w) => v = w

\* The storage keys, as strings, in the File entries of the versions of a codebase.
KeysOfCodebase(id) ==
  UNION {{ObjectName(FilesOf(v)[j].StorageKey) : j \in DOMAIN FilesOf(v)} :
           v \in {w \in DOMAIN Versions : Versions[w].CodebaseID = id}}

\* C25: two distinct codebases that exist at the same time have no storage key in
\* common in the File entries of their versions.
NoCrossCodebaseKey ==
  \A c, d \in DOMAIN Codebases :
    c # d => KeysOfCodebase(c) \cap KeysOfCodebase(d) = {}

\* --------------------------------------------------------- archive properties
\* The files of the version an archive request names, if it names one.
ArchiveFiles(in) ==
  LET v == GetVersion(in.codebaseID, in.branch, in.version) IN
  IF v = None \/ ~in.io.mkdir THEN <<>> ELSE FilesOf(v[1])
\* A unit of the archive fails: the object of the file cannot be read, is not
\* there, cannot be decompressed, or the file cannot be written.
UnitFails(file, io) ==
  \/ file.Path \in io.failed \cup io.unwritable
  \/ ObjectPath(ObjectName(file.StorageKey)) \notin DOMAIN objects
  \/ /\ file.Type # "image"
     /\ ~DecompressOK(objects[ObjectPath(ObjectName(file.StorageKey))])

\* C26: whenever an archive request is answered, no reconstruction directory is
\* left; and if a unit of one of the files of the version failed, the answer is an
\* error that carries no zip, and no zip file has been added to the temporary
\* directory.
ArchiveAllOrNothing ==
  [][(Ready /\ resp'.op = "archive") =>
       /\ temp'.dirs = {}
       /\ (\E i \in DOMAIN ArchiveFiles(resp'.in[1]) :
              UnitFails(ArchiveFiles(resp'.in[1])[i], resp'.in[1].io))
            => /\ ~resp'.ok
               /\ resp'.out = None
               /\ temp'.zips = temp.zips]_vars
\* An archive of a version of two files failed though one of its two units
\* succeeded and wrote its file.
ArchiveFailedHalfWay ==
  /\ resp.op = "archive"
  /\ resp.err = "file reconstruction failed"
  /\ resp.in[1].io.unwritable = {}
  /\ \E v \in DOMAIN Versions :
       /\ GetVersion(resp.in[1].codebaseID, resp.in[1].branch, resp.in[1].version) = Some(v)
       /\ Len(FilesOf(v)) = 2
       /\ \E i, j \in DOMAIN FilesOf(v) :
            /\ UnitFails(FilesOf(v)[i], resp.in[1].io)
            /\ ~UnitFails(FilesOf(v)[j], resp.in[1].io)
  /\ temp.dirs = {}

\* --------------------------------------------------------- request properties
\* C27: a snapshot request that omits auto_linkage and succeeds on a branch that
\* has another version leaves the new version with a sequential link to the
\* latest of them, as a request with auto_linkage = true does.
OmittedAutoLinkageLinks ==
  [][\A codebaseID \in CodebaseIDs, content \in Contents, run \in GoodRuns(OneFile) :
       (/\ content.auto_linkage = None
        /\ CreateSnapshot(codebaseID, content, OneFile, run)
        /\ resp'.ok
        /\ OthersOn(codebaseID, resp'.in[1].branch, resp'.id) # {})
       => /\ resp'.id \in DOMAIN VersionMapping'
          /\ VersionMapping'[resp'.id].LinkageType = LinkageTypeSequential
          /\ VersionMapping'[resp'.id].ParentVersionID =
               Latest(OthersOn(codebaseID, resp'.in[1].branch, resp'.id))]_vars

\* ------------------------------------------------------------ blob properties
\* C28: a write of the blob store to a key that holds bytes writes those same
\* bytes: the content of a stored object never changes.
StoredBytesNeverChange ==
  [][\A path \in DOMAIN objects \cap DOMAIN objects' :
       objects'[path] = objects[path]]_vars

\* ------------------------------------------------------------ lock properties
\* C29: every call of the metadata store in progress holds the lock of the store,
\* and no two calls in progress touch the same cache document when one of them
\* writes it.
UnderLock ==
  /\ \A i \in DOMAIN access : access[i].lock # "none"
  /\ \A i, j \in DOMAIN access :
       i # j => ~Conflict(access[i], access[j].call, access[j].doc)

\* ---------------------------------------------------- sequential link properties
\* C30: every link of type sequential joins two versions of the same codebase
\* and the same branch, and its parent was created before its child.
SequentialWithinBranch ==
  \A c \in DOMAIN VersionMapping :
    VersionMapping[c].LinkageType = LinkageTypeSequential =>
      \E child \in {VersionMapping[c].ChildVersionID},
         parent \in {VersionMapping[c].ParentVersionID} :
        /\ child \in DOMAIN Versions
        /\ parent \in DOMAIN Versions
        /\ Versions[child].CodebaseID = Versions[parent].CodebaseID
        /\ Versions[child].Branch = Versions[parent].Branch
        /\ Versions[parent].CreatedAt < Versions[child].CreatedAt

\* ----------------------------------------------------- default branch properties
\* C31: in a codebase whose default branch is not "main" and whose versions are
\* all on the default branch, the first snapshot on another branch, with automatic
\* linkage and no branch_from, gets a branch_from link to the latest version of
\* the default branch.
ForkFromDefaultBranch ==
  LET codebaseID == resp.in[1].codebaseID
      branch == resp.in[1].branch
  IN (/\ Snapshotted
      /\ resp.in[1].branchFrom = None
      /\ Codebases[codebaseID].Branch # "main"
      /\ branch # Codebases[codebaseID].Branch
      /\ Others(codebaseID, resp.id) # {}
      /\ Others(codebaseID, resp.id) =
           OthersOn(codebaseID, Codebases[codebaseID].Branch, resp.id))
     => LinkedTo(resp.id,
                 Latest(OthersOn(codebaseID, Codebases[codebaseID].Branch, resp.id)),
                 LinkageTypeBranchFrom)

\* -------------------------------------------------------------- path properties
\* C32: every file an archive reconstruction writes lies under the reconstruction
\* directory: no file is created or overwritten elsewhere.
WrittenUnderRoot ==
  \A path \in DOMAIN temp.files : Within(path, ReconstructionDir)

\* -------------------------------------------------------- statistics properties
\* C33: the statistics of a version a snapshot created count its File records,
\* sum their original sizes, which are the sizes of the uploaded bytes, and sum
\* their compressed sizes, an image's being its original size; the compression
\* ratio is compressed size over total size, and 0 when the total size is 0.
StatsMatchFiles ==
  (resp.op = "snapshot" /\ resp.ok) =>
    LET files == FilesOf(resp.id)
        stats == Versions[resp.id].Stats
    IN /\ stats.TotalFiles = Len(files)
       /\ stats.TotalFiles = Cardinality(DOMAIN resp.in[1].files)
       /\ stats.TotalSize = Sum([i \in DOMAIN files |-> files[i].Size])
       /\ stats.CompressedSize = Sum([i \in DOMAIN files |-> files[i].CompressedSize])
       /\ \A i \in DOMAIN files :
            /\ files[i].Size = ByteLen(resp.in[1].files[files[i].Path])
            /\ files[i].Type = "image" => files[i].CompressedSize = files[i].Size
       /\ stats.CompressionRatio =
            IF stats.TotalSize = 0 THEN <<0, 1>>
            ELSE <<stats.CompressedSize, stats.TotalSize>>
\* A version of two files whose image unit completed before its text unit.
ImageUnitFirst ==
  /\ resp.op = "snapshot" /\ resp.ok
  /\ Len(FilesOf(resp.id)) = 2
  /\ FilesOf(resp.id)[1].Path = "b.png"
  /\ Versions[resp.id].Stats.TotalSize = 3


\* ------------------------------------------------- requests racing a deletion
\* ProcessSnapshot and the manual link in the parts between which another request
\* is served: every call of the metadata store takes p.mu for itself, and the
\* services hold nothing from one call to the next.
\* ProcessSnapshot up to UpdateCodebaseTimestamp: GetCodebaseByID, CreateSnapshot
\* and the first store call of persistMetadata.
SnapshotTouch(codebaseID, ver, files) ==
  /\ Ready /\ flight = None
  /\ uuidVersion < MaxSnapshots
  /\ UNCHANGED <<versionState, linkState, historyCache, uuidCodebase, rebuilds, config,
                 pair, parked, building, temp, access>>
  /\ IF codebaseID \notin DOMAIN Codebases
       THEN /\ resp' = [op |-> "snapshot", ok |-> FALSE, err |-> "invalid codebase_id",
                        id |-> NoVersionID, in |-> None, out |-> None]
            /\ UNCHANGED <<Codebases, diskCodebases, objects, now, uuidVersion, flight>>
       ELSE
         \E versionID \in {uuidVersion + 1} :
         LET name == Codebases[codebaseID].Name
             order == <<"a.txt">>
             outcome == [p \in DOMAIN files |-> "ok"]
             units == processFiles(files, name, order, outcome)
             version == [ID |-> versionID, CodebaseID |-> codebaseID, Version |-> ver,
                         Branch |-> "main", TreeID |-> versionID,
                         CreatedAt |-> now + 1, Stats |-> units.stats]
         IN
         /\ uuidVersion' = versionID
         /\ now' = now + 1
         /\ objects' = PutObjects(objects, files, name, order, outcome)
         /\ Codebases' = [Codebases EXCEPT ![codebaseID].UpdatedAt = now']
         /\ diskCodebases' = Codebases'
         /\ flight' = Some([pc |-> "version", codebaseID |-> codebaseID,
                            version |-> version, files |-> units.processedFiles])
         /\ UNCHANGED resp

\* The rest of ProcessSnapshot: CreateVersion, establishLinkage, GetVersionMap and
\* the response.
SnapshotVersion ==
  /\ InFlight("version")
  /\ UNCHANGED <<Codebases, diskCodebases, objects, now, uuidCodebase, uuidVersion,
                 rebuilds, config, pair, parked, building, temp, access>>
  /\ \E h \in {flight[1]} :
       /\ CreateVersion(h.version, h.files, 2)
       /\ establishLinkage(h.codebaseID, h.version.ID, "main", None, TRUE)
       /\ GetVersionMap(h.codebaseID, KeyOrder, TRUE)
       /\ flight' = None
       /\ resp' = [op |-> "snapshot", ok |-> TRUE,
                   err |-> LinkageError(h.codebaseID, h.version.ID, "main", None, TRUE),
                   id |-> h.version.ID, in |-> None,
                   out |-> VersionMapGot(h.codebaseID)']

\* CreateVersionLinkWithType up to the insertion: the two GetVersion calls.
LinkResolve(codebaseID, child, parent) ==
  /\ Ready /\ flight = None
  /\ PendingRebuilds + Len(building) < MaxRebuilds
  /\ UNCHANGED <<memory, disk, historyCache, objects, now, uuidCodebase, uuidVersion,
                 uuidLink, rebuilds, config, pair, parked, building, temp, access>>
  /\ LET childVersion == GetVersion(codebaseID, child.Branch, child.Version)
         parentVersion == GetVersion(codebaseID, parent.Branch, parent.Version)
         failure(err) == [op |-> "link", ok |-> FALSE, err |-> err, id |-> NoVersionID,
                          in |-> None, out |-> None]
     IN IF childVersion = None
          THEN resp' = failure("child version not found") /\ UNCHANGED flight
        ELSE IF parentVersion = None
          THEN resp' = failure("parent version not found") /\ UNCHANGED flight
        ELSE /\ flight' = Some([pc |-> "insert", codebaseID |-> codebaseID,
                                childID |-> childVersion[1],
                                parentID |-> parentVersion[1], branch |-> child.Branch])
             /\ UNCHANGED resp

\* The rest of it: CreateVersionLink, the detached rebuild and the response.
LinkInsert ==
  /\ InFlight("insert")
  /\ UNCHANGED <<Codebases, diskCodebases, versionState, historyCache, objects, now,
                 uuidCodebase, uuidVersion, config, pair, parked, building, temp,
                 access>>
  /\ \E h \in {flight[1]} :
       /\ CreateVersionLink(h.codebaseID, h.childID, h.parentID, h.branch,
                            LinkageTypeSequential, TRUE)
       /\ rebuilds' = Put(rebuilds, h.codebaseID, Pending(h.codebaseID) + 1)
       /\ flight' = None
       /\ resp' = [op |-> "link", ok |-> TRUE, err |-> "", id |-> h.childID,
                   in |-> Some([codebaseID |-> h.codebaseID, child |-> Some(h.childID),
                                parent |-> Some(h.parentID)]),
                   out |-> None]

\* The runs with a deletion between the parts: one codebase, snapshots of one text
\* file on main, manual links between labels of main, deletions in which every
\* removal and every save succeeds, and the detached rebuilds.
NextRace ==
  \/ InitializeCodebase(ProjName, "", "main", TRUE)
  \/ \E codebaseID \in CodebaseIDs, ver \in Labels : SnapshotTouch(codebaseID, ver, OneFile)
  \/ SnapshotVersion
  \/ \E codebaseID \in CodebaseIDs, child, parent \in [Branch : {"main"}, Version : Labels] :
       LinkResolve(codebaseID, child, parent)
  \/ LinkInsert
  \/ \E codebaseID \in CodebaseIDs : DeleteCodebase(codebaseID, AllRemoved)
  \/ \E codebaseID \in CodebaseIDs : RebuildHistoryCache(codebaseID, KeyOrder, TRUE)
  \/ Deliver

SpecRace == Init /\ [][NextRace]_vars

\* C34: in every reachable state, deletions between the parts of a snapshot or of
\* a link creation included, every stored version names an existing codebase and
\* has a file index under its tree id, and the child and the parent of every
\* stored link are stored versions of the link's codebase.
IsVersionOf(versionID, codebaseID) ==
  versionID \in DOMAIN Versions /\ Versions[versionID].CodebaseID = codebaseID
ReferentialIntegrity ==
  /\ \A v \in DOMAIN Versions :
       /\ Versions[v].CodebaseID \in DOMAIN Codebases
       /\ Versions[v].TreeID \in DOMAIN FileIndexes
  /\ \A c \in DOMAIN VersionMapping :
       /\ IsVersionOf(c, VersionMapping[c].CodebaseID)
       /\ IsVersionOf(VersionMapping[c].ParentVersionID, VersionMapping[c].CodebaseID)

\* ------------------------------------------------- the rebuild, query by query
\* RebuildHistoryCache as its store calls: GetAllVersionsForMap,
\* GetAllVersionEdgesForMap and GetBranchHeadsForMap each take p.mu.RLock() for
\* themselves, and requests are served between them. A rebuild under way is in
\* building with the query it is to make next in pc; after the third query the
\* entry is the assembled graph, which RebuildWrite hands to UpdateHistoryCache.
RebuildNodes(codebaseID) ==
  /\ Pending(codebaseID) > 0
  /\ rebuilds' = [rebuilds EXCEPT ![codebaseID] = @ - 1]
  /\ building' = Append(building, [pc |-> "edges", CodebaseID |-> codebaseID,
                                   Nodes |-> GetAllVersionsForMap(codebaseID),
                                   Edges |-> <<>>, Refs |-> <<>>])
  /\ UNCHANGED <<memory, disk, historyCache, objects, now, uuidCodebase, uuidVersion,
                 uuidLink, resp, manager, temp, access>>

Queried(i, pc) == i \in DOMAIN building /\ "pc" \in DOMAIN building[i] /\ building[i].pc = pc

RebuildEdges(i, rank) ==
  /\ Queried(i, "edges")
  /\ building' = [building EXCEPT
                    ![i] = [@ EXCEPT !.pc = "refs",
                                     !.Edges = GetAllVersionEdgesForMap(building[i].CodebaseID,
                                                                       rank)]]
  /\ UNCHANGED <<memory, disk, historyCache, objects, now, uuidCodebase, uuidVersion,
                 uuidLink, rebuilds, resp, manager, temp, access>>

RebuildRefs(i) ==
  /\ Queried(i, "refs")
  /\ building' = [building EXCEPT
                    ![i] = [CodebaseID |-> @.CodebaseID, Nodes |-> @.Nodes,
                            Edges |-> @.Edges,
                            Refs |-> GetBranchHeadsForMap(@.CodebaseID)]]
  /\ UNCHANGED <<memory, disk, historyCache, objects, now, uuidCodebase, uuidVersion,
                 uuidLink, rebuilds, resp, manager, temp, access>>

\* UpdateHistoryCache with the assembled graph.
RebuildUpdate(i) ==
  /\ i \in DOMAIN building
  /\ "pc" \notin DOMAIN building[i]
  /\ RebuildWrite(i, TRUE)

\* The runs of the rebuild among requests: one codebase, snapshots of one text
\* file on main under one label with automatic linkage, manual links of that
\* label, deletions in which every removal and every save succeeds.
NextRebuild ==
  \/ \E name \in {ProjName} \ NamesInUse : InitializeCodebase(name, "", "main", TRUE)
  \/ \E codebaseID \in CodebaseIDs, ver \in {"v1"}, run \in GoodRuns(OneFile) :
       ProcessSnapshot(codebaseID, ver, "main", "", OneFile, None, TRUE, run)
  \/ \E codebaseID \in CodebaseIDs, child, parent \in [Branch : {"main"}, Version : {"v1"}] :
       CreateVersionLinkWithType(codebaseID, child, parent, LinkageTypeSequential, TRUE)
  \/ \E codebaseID \in CodebaseIDs : DeleteCodebase(codebaseID, AllRemoved)
  \/ \E codebaseID \in CodebaseIDs : RebuildNodes(codebaseID)
  \/ \E i \in 1..MaxRebuilds : RebuildEdges(i, KeyOrder)
  \/ \E i \in 1..MaxRebuilds : RebuildRefs(i)
  \/ \E i \in 1..MaxRebuilds : RebuildUpdate(i)
  \/ Deliver

SpecRebuild == Init /\ [][NextRebuild]_vars

\* C35: every graph in the cache is self-consistent, requests served during the
\* rebuild included: both ends of every edge and the target of every refs entry
\* are ids of nodes of the same graph, and the branch of every node has a refs
\* entry.
SelfConsistent(graph) ==
  /\ \A i \in DOMAIN graph.Edges :
       graph.Edges[i].From \in NodeIDs(graph) /\ graph.Edges[i].To \in NodeIDs(graph)
  /\ \A b \in DOMAIN graph.Refs : graph.Refs[b] \in NodeIDs(graph)
  /\ \A i \in DOMAIN graph.Nodes : graph.Nodes[i].Branch \in DOMAIN graph.Refs
CachedGraphsSelfConsistent ==
  \A id \in DOMAIN historyCache : SelfConsistent(historyCache[id])

\* C36: a cached graph exists only for a codebase that exists: neither
\* GetVersionMap nor RebuildHistoryCache writes one for an id that is unknown or
\* deleted, a rebuild still under way when the deletion returned included.
CacheOnlyForCodebases == DOMAIN historyCache \subseteq DOMAIN Codebases

\* C37: a metadata store constructed anew over the directory in use answers as
\* the store it replaces: GetVersion by triple, FindLatestVersionInBranch,
\* IsNewBranch, and the nodes and branch heads of the graph are the same after the
\* reload as before it.
ReloadIsNeutral ==
  [][(Ready /\ resp'.op = "config" /\ resp'.ok /\ pair' = pair) =>
       /\ \A c \in CodebaseIDs, b \in Branches, v \in Labels :
            GetVersion(c, b, v)' = GetVersion(c, b, v)
       /\ \A c \in CodebaseIDs, b \in Branches, x \in 0..MaxSnapshots :
            /\ FindLatestVersionInBranch(c, b, x)' = FindLatestVersionInBranch(c, b, x)
            /\ IsNewBranch(c, b, x)' = IsNewBranch(c, b, x)
       /\ \A c \in CodebaseIDs :
            /\ GetAllVersionsForMap(c)' = GetAllVersionsForMap(c)
            /\ GetBranchHeadsForMap(c)' = GetBranchHeadsForMap(c)]_vars

\* The runs in which any write of the metadata store fails: one codebase, whose
\* save succeeds or fails; snapshots of one text file on main under one label, in
\* which the saves of the timestamp, of the version and of its file index
\* succeed or fail; manual links of that label whose save succeeds or fails.
PersistOutcomes == {io \in SaveOutcomes : io.link /\ io.cache}
PersistRuns ==
  [order : Perms(DOMAIN OneFile), outcome : {[p \in DOMAIN OneFile |-> "ok"]},
   rank : {KeyOrder}, io : PersistOutcomes]
NextPersist ==
  \/ \E name \in {ProjName} \ NamesInUse, io \in BOOLEAN :
       InitializeCodebase(name, "", "main", io)
  \/ \E codebaseID \in CodebaseIDs, ver \in {"v1"}, run \in PersistRuns :
       ProcessSnapshot(codebaseID, ver, "main", "", OneFile, None, FALSE, run)
  \/ \E codebaseID \in CodebaseIDs, child, parent \in [Branch : {"main"}, Version : {"v1"}],
       io \in BOOLEAN :
       CreateVersionLinkWithType(codebaseID, child, parent, LinkageTypeSequential, io)
  \/ \E codebaseID \in CodebaseIDs : RebuildHistoryCache(codebaseID, KeyOrder, TRUE)
  \/ Deliver

SpecPersist == Init /\ [][NextPersist]_vars

\* C38: a mutation of the metadata store that returns an error changes nothing
\* that a read returns: after an initialization or a manual link that answers an
\* error the in-memory collections and indexes are as before; and a snapshot that
\* answers an error leaves updated_at of every codebase as it was.
ErrorChangesNothing ==
  [][/\ (Ready /\ resp'.op \in {"init", "link"} /\ ~resp'.ok) => memory' = memory
     /\ (Ready /\ resp'.op = "snapshot" /\ ~resp'.ok) =>
          \A id \in DOMAIN Codebases :
            /\ id \in DOMAIN Codebases'
            /\ Codebases'[id].UpdatedAt = Codebases[id].UpdatedAt]_vars

\* The runs over pairs of names: codebases named "proj" or "proj/sub", the same
\* name twice included; snapshots of one text file on main; deletions in which
\* every removal and every save succeeds.
SubName == <<"proj", "/", "sub">>
NextFrame ==
  \/ \E name \in {ProjName, SubName} : InitializeCodebase(name, "", "main", TRUE)
  \/ \E codebaseID \in CodebaseIDs, ver \in Labels, files \in TextUploads :
       \E run \in GoodRuns(files) :
         ProcessSnapshot(codebaseID, ver, "main", "", files, None, TRUE, run)
  \/ \E codebaseID \in CodebaseIDs : DeleteCodebase(codebaseID, AllRemoved)
  \/ Deliver

SpecFrame == Init /\ [][NextFrame]_vars

\* C39: a deletion that succeeds touches the deleted codebase only: every other
\* codebase keeps its record, its versions with their file indexes, its links and
\* its cached graph, and every file of its versions that could be fetched still
\* has its object in the blob store, with the same bytes.
LinksOfCodebase(id) ==
  {c \in DOMAIN VersionMapping : VersionMapping[c].CodebaseID = id}
DeleteTouchesOnlyItsCodebase ==
  [][(Ready /\ resp'.op = "delete" /\ resp'.ok) =>
       \A id \in DOMAIN Codebases \ {resp'.id} :
         /\ id \in DOMAIN Codebases' /\ Codebases'[id] = Codebases[id]
         /\ VersionsOf(id)' = VersionsOf(id)
         /\ \A v \in Range(VersionsOf(id)) :
              /\ v \in DOMAIN Versions' /\ Versions'[v] = Versions[v]
              /\ Versions[v].TreeID \in DOMAIN FileIndexes'
              /\ FilesOf(v)' = FilesOf(v)
              /\ \A j \in DOMAIN FilesOf(v) :
                   \A path \in {ObjectPath(ObjectName(FilesOf(v)[j].StorageKey))} :
                     FetchFile(FilesOf(v)[j], TRUE).ok =>
                       path \in DOMAIN objects' /\ objects'[path] = objects[path]
         /\ \A c \in LinksOfCodebase(id) :
              c \in DOMAIN VersionMapping' /\ VersionMapping'[c] = VersionMapping[c]
         /\ id \in DOMAIN historyCache =>
              id \in DOMAIN historyCache' /\ historyCache'[id] = historyCache[id]]_vars
====
